---- MODULE Spec2Model ----
(***************************************************************************)
(* A model of sparx (native/sparx/src): the request queue between the      *)
(* connection handlers and the consumer (server.rs, lib.rs), the request   *)
(* body pump and read_body_chunk (server.rs, request.rs), and the response *)
(* part channel with its builder (response.rs, lib.rs).                    *)
(*                                                                         *)
(* The module holds these state machines:                                  *)
(*   SpecQ  acceptor, connection handlers, Request Queue, receive_request, *)
(*          shutdown;                                                      *)
(*   SpecB  one request's body: wire frames, pump task, body channel,      *)
(*          read_body_chunk;                                               *)
(*   SpecBAny  SpecB on a body that may hold empty data frames;            *)
(*   SpecR  one request's response: the consumer's sends, the response     *)
(*          part channel, build_response_from_channel;                     *)
(*   SpecU  SpecR's response machinery with upgrade_websocket calls;       *)
(*   SpecW  one WebSocketHandle: send_frame, recv_frame, ws_close and the  *)
(*          peer (websocket.rs, lib.rs);                                   *)
(*   SpecS  concurrent shutdown() calls step by step, on SpecQ's shutdown  *)
(*          channel and server task (server.rs, lib.rs);                   *)
(*   SpecX  one request with its body (SpecB) and its response (SpecR)     *)
(*          together, and the connection closing under both.               *)
(* Each specification leaves the variables of the others at their initial  *)
(* values.                                                                 *)
(***************************************************************************)
EXTENDS Integers, Sequences, FiniteSets, TLC

(***************************************************************************)
(* Bounds of the model.                                                    *)
(***************************************************************************)
\* requests one keep-alive connection carries
MaxReqs == 2
\* concurrent receive_request callers
NumCallers == 2
\* capacity of the Request Queue; mpsc::channel(1024) at lib.rs:49, scaled down
\* so that a full queue is reached
QueueCap == 1
\* frames of one request body on the wire
MaxFrames == 2
\* capacity of the body channel; mpsc::channel(16) at server.rs:121, scaled
\* down so that the pump meets a full channel
BodyCap == 1
\* capacity of the response-part channel; mpsc::channel(16) at server.rs:122,
\* scaled down so that a sender meets a full channel
RespCap == 2
\* response-part calls of the consumer in any order (SpecR)
MaxAny == 3
\* body chunks of a consumer that keeps the order Status, Header*, BodyChunk*,
\* Finish (SpecR)
MaxChunks == 2
\* response-part calls of the consumer around an upgrade (SpecU)
MaxSendsU == 2
\* calls on one WebSocketHandle (SpecW)
MaxWsOps == 3
\* frames the peer sends on one WebSocket (SpecW)
MaxWsIn == 2
\* shutdown() calls of one caller (SpecS)
MaxShutdowns == 2
\* response-part calls of the consumer on a connection that closes (SpecX)
MaxSendsX == 2

\* the connections the acceptor may accept
Conns == {1, 2}
Callers == 1..NumCallers
Reqs == Conns \X (1..MaxReqs)

VARIABLES
    \* ---- SpecQ ----
    server_task,    \* the task spawned by server_start: "running" | "stopped"
    shutdown_tx,    \* ServerHandle.shutdown_tx: "Some" | "None" | "Dropped"
    shutdown_sig,   \* messages in the shutdown channel (capacity 1)
    server_handle,  \* TRUE while the consumer holds the ServerHandle resource
    conn,           \* conn[c]: "none" | "open" | "closed"
    h_pc,           \* handle_request of connection c: "idle" | "enqueue" | "build"
    h_req,          \* number of the request connection c is serving (0: none yet)
    queue,          \* the Request Queue: QueuedRequests in the channel
    queue_lock,     \* holder of ServerHandle.request_queue's mutex (0: free)
    rr_pc,          \* receive_request of caller k: "idle" | "lock" | "recv"
    rr_last,        \* what the last receive_request to return returned:
                    \* "none" | "req" | "eos"
    enqueued,       \* history: requests whose send on request_tx succeeded
    delivered,      \* history: requests receive_request returned, in order
    answered        \* answered[r]: "none" | "built" | "e500"

varsQ == <<server_task, shutdown_tx, shutdown_sig, server_handle, conn, h_pc,
           h_req, queue, queue_lock, rr_pc, rr_last, enqueued, delivered,
           answered>>

VARIABLES
    \* ---- SpecB ----
    wire_all,       \* the frames the Incoming body yields, in order (input)
    wire_end,       \* what follows them: "end" (None) | "err" (Some(Err(e)))
    wire_pos,       \* frames the pump has taken so far
    wire_cut,       \* TRUE once the connection was closed under the body
    pump_pc,        \* the pump task: "frame" | "send" | "send_last" | "done"
    pump_item,      \* the item the pump is sending
    pump_saw,       \* how the pump saw the body end: "none" | "end" | "err"
    body_ch,        \* the body channel
    body_rx,        \* RequestHandle.body_rx: "Some" | "None" | "Dropped"
    rd_pc,          \* read_body_chunk: "idle" | "recv"
    read_log        \* history: the results read_body_chunk returned, in order

varsB == <<wire_all, wire_end, wire_pos, wire_cut, pump_pc, pump_item,
           pump_saw, body_ch, body_rx, rd_pc, read_log>>

VARIABLES
    \* ---- SpecR, SpecU ----
    wire_headers,   \* the request's headers as sent by the client (input)
    req_headers,    \* RequestHandle.metadata.headers
    response_tx,    \* RequestHandle.response_tx: "Some" | "None" | "Dropped"
    resp_ch,        \* the response-part channel
    resp_rx,        \* its receiver, owned by handle_request: "open" | "dropped"
    builder,        \* the ResponseBuilder of build_response_from_channel
    resp_state,     \* handle_request: "building" | "written" | "aborted"
    response,       \* the Response handle_request returned to the connection
    trace,          \* history: the consumer's response-part calls and results
    upgrade_slot,   \* the upgrade slot of the request: "Available" | "Taken"
    up_pc,          \* upgrade_websocket of caller u: "idle" | "send" | "await" | "done"
    up_idx,         \* the handshake message caller u sends next (1..5)
    up_res,         \* what caller u's upgrade_websocket returned
    up_took,        \* history: caller u's take_upgrade yielded the slot
    up_late,        \* history: caller u called after a response part was sent
    up_first,       \* history: caller u called with the slot never taken before
    ws_handles,     \* WebSocketHandles created for the request
    up_sent         \* per upgrade call: the messages it put on the channel

respVars == <<resp_ch, resp_rx, builder, resp_state, response>>
upVars == <<upgrade_slot, up_pc, up_idx, up_res, up_took, up_late, up_first,
           ws_handles,
           up_sent>>

varsR == <<wire_headers, req_headers, response_tx, respVars, trace, upVars>>

VARIABLES
    \* ---- SpecW ----
    ws_stream,      \* WebSocketHandle.stream: "Some" | "None"
    ws_lock,        \* holder of the stream mutex: "free" | "s" | "r"
    ws_pc,          \* ws_pc[p], p the sending or the receiving caller:
                    \* "idle" | "lock" | "io"
    ws_op,          \* the frame the sending caller sends: "text" | "close"
    ws_lib,         \* the protocol state of the WebSocketStream:
                    \* "active" | "close_sent" | "close_seen"
    ws_in,          \* frames that arrived from the peer and are not read yet
    ws_nin,         \* number of frames the peer has sent
    ws_peer,        \* the incoming side after those frames:
                    \* "open" | "ended" | "err"
    ws_trig,        \* history: what has happened to the connection so far
    ws_at,          \* history: ws_at[p]: the handle and the connection when
                    \* caller p made its call
    ws_log          \* history: the calls that returned, with their results

varsW == <<ws_stream, ws_lock, ws_pc, ws_op, ws_lib, ws_in, ws_nin, ws_peer,
           ws_trig, ws_at, ws_log>>

VARIABLES
    \* ---- SpecS ----
    sd_pc,          \* shutdown() of caller k: "idle" | "lock" | "take" | "send"
    sd_lock,        \* holder of ServerHandle.shutdown_tx's mutex (0: free)
    sd_n,           \* history: shutdown() calls caller k has made
    sd_done,        \* history: shutdown() calls that have returned
    sd_sends        \* history: tx.send(()) calls executed

varsS == <<sd_pc, sd_lock, sd_n, sd_done, sd_sends>>

vars == <<varsQ, varsB, varsR, varsW, varsS>>

\* what the actions of one state machine leave alone
otherQ == <<varsB, varsR, varsW, varsS>>
otherB == <<varsQ, varsR, varsW, varsS>>
otherR == <<varsQ, varsB, varsW, varsS>>
otherW == <<varsQ, varsB, varsR, varsS>>
otherS == <<varsB, varsR, varsW>>

(***************************************************************************)
(* Helpers on sequences.                                                   *)
(***************************************************************************)
Range(s) == {s[i] : i \in 1..Len(s)}

NoDup(s) == \A i, j \in 1..Len(s) : i # j => s[i] # s[j]

(***************************************************************************)
(* SpecQ: the server core.                                                 *)
(***************************************************************************)
\* server_start: the queue and the shutdown channel are created, the
\* ServerHandle is returned and the server task is spawned.
InitQ ==
    /\ server_task = "running"
    /\ shutdown_tx = "Some"
    /\ shutdown_sig = 0
    /\ server_handle = TRUE
    /\ conn = [c \in Conns |-> "none"]
    /\ h_pc = [c \in Conns |-> "idle"]
    /\ h_req = [c \in Conns |-> 0]
    /\ queue = <<>>
    /\ queue_lock = 0
    /\ rr_pc = [k \in Callers |-> "idle"]
    /\ rr_last = "none"
    /\ enqueued = <<>>
    /\ delivered = <<>>
    /\ answered = [r \in Reqs |-> "none"]

\* The senders of the Request Queue: start_server's request_tx lives as long as
\* the server task, and every connection task owns a clone (server.rs:88) for
\* as long as the connection is served.
SendersAlive == server_task = "running" \/ \E c \in Conns : conn[c] = "open"

\* The queue's receiver lives in the ServerHandle; nothing in the code closes it.
ReceiverAlive == server_handle

\* a recv that hands out the oldest item and leaves it in the channel
QueuePop_Keep(q) == q

\* mpsc::Receiver::recv takes the oldest item.
QueuePop(q) == Tail(q)

\* mpsc::Sender::send appends.
QueuePush(q, r) == Append(q, r)

\* listener.accept() succeeded: a connection task is spawned with a clone of
\* request_tx.
Accept(c) ==
    /\ server_task = "running"
    /\ conn[c] = "none"
    /\ conn' = [conn EXCEPT ![c] = "open"]
    /\ UNCHANGED otherQ
    /\ UNCHANGED <<server_task, shutdown_tx, shutdown_sig, server_handle, h_pc,
                   h_req, queue, queue_lock, rr_pc, rr_last, enqueued,
                   delivered, answered>>

\* a connection that takes its next request while the last one is unanswered
RequestArrives_Pipelined(c) ==
    /\ conn[c] = "open"
    /\ h_req[c] < MaxReqs
    /\ h_req' = [h_req EXCEPT ![c] = @ + 1]
    /\ h_pc' = [h_pc EXCEPT ![c] = "enqueue"]
    /\ UNCHANGED otherQ
    /\ UNCHANGED <<server_task, shutdown_tx, shutdown_sig, server_handle, conn,
                   queue, queue_lock, rr_pc, rr_last, enqueued, delivered,
                   answered>>

\* hyper calls the service for the next request of the connection:
\* handle_request creates the channels and the RequestHandle and spawns the
\* body pump; it then stands at request_tx.send.
RequestArrives(c) ==
    /\ conn[c] = "open"
    /\ h_pc[c] = "idle"
    /\ h_req[c] < MaxReqs
    /\ h_req' = [h_req EXCEPT ![c] = @ + 1]
    /\ h_pc' = [h_pc EXCEPT ![c] = "enqueue"]
    /\ UNCHANGED otherQ
    /\ UNCHANGED <<server_task, shutdown_tx, shutdown_sig, server_handle, conn,
                   queue, queue_lock, rr_pc, rr_last, enqueued, delivered,
                   answered>>

\* a handler whose failed enqueue ends its connection
Enqueue_FailClosesConn(c) ==
    LET r == <<c, h_req[c]>> IN
    /\ conn[c] = "open"
    /\ h_pc[c] = "enqueue"
    /\ IF ~ReceiverAlive
         THEN /\ answered' = [answered EXCEPT ![r] = "e500"]
              /\ h_pc' = [h_pc EXCEPT ![c] = "idle"]
              /\ conn' = [conn EXCEPT ![c] = "closed"]
              /\ UNCHANGED <<queue, enqueued>>
         ELSE /\ Len(queue) < QueueCap
              /\ queue' = QueuePush(queue, r)
              /\ enqueued' = Append(enqueued, r)
              /\ h_pc' = [h_pc EXCEPT ![c] = "build"]
              /\ UNCHANGED <<answered, conn>>
    /\ UNCHANGED otherQ
    /\ UNCHANGED <<server_task, shutdown_tx, shutdown_sig, server_handle,
                   h_req, queue_lock, rr_pc, rr_last, delivered>>

\* a handler that does not wait for room in the queue
Enqueue_NoWait(c) ==
    LET r == <<c, h_req[c]>> IN
    /\ conn[c] = "open"
    /\ h_pc[c] = "enqueue"
    /\ IF ~ReceiverAlive
         THEN /\ answered' = [answered EXCEPT ![r] = "e500"]
              /\ h_pc' = [h_pc EXCEPT ![c] = "idle"]
              /\ UNCHANGED <<queue, enqueued>>
         ELSE /\ queue' = QueuePush(queue, r)
              /\ enqueued' = Append(enqueued, r)
              /\ h_pc' = [h_pc EXCEPT ![c] = "build"]
              /\ UNCHANGED answered
    /\ UNCHANGED otherQ
    /\ UNCHANGED <<server_task, shutdown_tx, shutdown_sig, server_handle, conn,
                   h_req, queue_lock, rr_pc, rr_last, delivered>>

\* request_tx.send(queued).await: an error when the receiver is gone (the
\* handler answers 500 "Server Error"), suspended while the queue is full,
\* otherwise the request is appended and the handler awaits the response.
Enqueue(c) ==
    LET r == <<c, h_req[c]>> IN
    /\ conn[c] = "open"
    /\ h_pc[c] = "enqueue"
    /\ IF ~ReceiverAlive
         THEN /\ answered' = [answered EXCEPT ![r] = "e500"]
              /\ h_pc' = [h_pc EXCEPT ![c] = "idle"]
              /\ UNCHANGED <<queue, enqueued>>
         ELSE /\ Len(queue) < QueueCap
              /\ queue' = QueuePush(queue, r)
              /\ enqueued' = Append(enqueued, r)
              /\ h_pc' = [h_pc EXCEPT ![c] = "build"]
              /\ UNCHANGED answered
    /\ UNCHANGED otherQ
    /\ UNCHANGED <<server_task, shutdown_tx, shutdown_sig, server_handle, conn,
                   h_req, queue_lock, rr_pc, rr_last, delivered>>

\* build_response_from_channel returned: the consumer, holding the request,
\* sent Finish. handle_request keeps its own response_tx, so the build does
\* not end while the request sits in the queue.
BuildDone(c) ==
    LET r == <<c, h_req[c]>> IN
    /\ conn[c] = "open"
    /\ h_pc[c] = "build"
    /\ r \in Range(delivered)
    /\ answered' = [answered EXCEPT ![r] = "built"]
    /\ h_pc' = [h_pc EXCEPT ![c] = "idle"]
    /\ UNCHANGED otherQ
    /\ UNCHANGED <<server_task, shutdown_tx, shutdown_sig, server_handle, conn,
                   h_req, queue, queue_lock, rr_pc, rr_last, enqueued,
                   delivered>>

\* The peer closes the connection (or serve_connection fails): the connection
\* task ends, its handle_request future and its request_tx clone are dropped.
ConnClose(c) ==
    /\ conn[c] = "open"
    /\ conn' = [conn EXCEPT ![c] = "closed"]
    /\ h_pc' = [h_pc EXCEPT ![c] = "idle"]
    /\ UNCHANGED otherQ
    /\ UNCHANGED <<server_task, shutdown_tx, shutdown_sig, server_handle,
                   h_req, queue, queue_lock, rr_pc, rr_last, enqueued,
                   delivered, answered>>

\* a shutdown that empties the Request Queue
Shutdown_Drain ==
    /\ server_handle
    /\ IF shutdown_tx = "Some"
         THEN /\ shutdown_tx' = "None"
              /\ shutdown_sig' = IF server_task = "running" THEN 1 ELSE 0
              /\ queue' = <<>>
         ELSE UNCHANGED <<shutdown_tx, shutdown_sig, queue>>
    /\ UNCHANGED otherQ
    /\ UNCHANGED <<server_task, server_handle, conn, h_pc, h_req,
                   queue_lock, rr_pc, rr_last, enqueued, delivered, answered>>

\* ServerHandle::shutdown: under the shutdown_tx mutex, take the sender and,
\* if it was there, send the signal. The channel has capacity 1 and this is
\* its only send, so the send does not suspend.
Shutdown ==
    /\ server_handle
    /\ IF shutdown_tx = "Some"
         THEN /\ shutdown_tx' = "None"
              /\ shutdown_sig' = IF server_task = "running" THEN 1 ELSE 0
         ELSE UNCHANGED <<shutdown_tx, shutdown_sig>>
    /\ UNCHANGED otherQ
    /\ UNCHANGED <<server_task, server_handle, conn, h_pc, h_req, queue,
                   queue_lock, rr_pc, rr_last, enqueued, delivered, answered>>

\* The select! of server_start: shutdown_rx.recv() completes on the signal, or
\* with None once the sender is dropped. The start_server future is dropped,
\* and with it the listener and the acceptor's request_tx; connection tasks
\* already spawned go on.
ServerTaskStop ==
    /\ server_task = "running"
    /\ shutdown_sig = 1 \/ shutdown_tx = "Dropped"
    /\ server_task' = "stopped"
    /\ shutdown_sig' = 0
    /\ UNCHANGED otherQ
    /\ UNCHANGED <<shutdown_tx, server_handle, conn, h_pc, h_req, queue,
                   queue_lock, rr_pc, rr_last, enqueued, delivered, answered>>

\* start_server returns Err before it accepts anything: the address does not
\* parse or TcpListener::bind fails. The select! of server_start completes on
\* its first branch and the server task ends, dropping the acceptor's
\* request_tx and shutdown_rx; the ServerHandle keeps its shutdown_tx.
ServerTaskFail ==
    /\ server_task = "running"
    /\ \A c \in Conns : conn[c] = "none"
    /\ server_task' = "stopped"
    /\ shutdown_sig' = 0
    /\ UNCHANGED otherQ
    /\ UNCHANGED <<shutdown_tx, server_handle, conn, h_pc, h_req, queue,
                   queue_lock, rr_pc, rr_last, enqueued, delivered, answered>>

\* receive_request is called: the caller waits for the request_queue mutex.
RRCall(k) ==
    /\ server_handle
    /\ rr_pc[k] = "idle"
    /\ rr_pc' = [rr_pc EXCEPT ![k] = "lock"]
    /\ UNCHANGED otherQ
    /\ UNCHANGED <<server_task, shutdown_tx, shutdown_sig, server_handle, conn,
                   h_pc, h_req, queue, queue_lock, rr_last, enqueued, delivered,
                   answered>>

\* self.request_queue.lock().await
RRLock(k) ==
    /\ rr_pc[k] = "lock"
    /\ queue_lock = 0
    /\ queue_lock' = k
    /\ rr_pc' = [rr_pc EXCEPT ![k] = "recv"]
    /\ UNCHANGED otherQ
    /\ UNCHANGED <<server_task, shutdown_tx, shutdown_sig, server_handle, conn,
                   h_pc, h_req, queue, rr_last, enqueued, delivered, answered>>

\* queue.recv().await.map(|req| req.handle): the oldest request, or None once
\* the channel is empty and every sender is dropped; suspended otherwise. The
\* mutex guard is dropped on return.
RRRecv(k) ==
    /\ rr_pc[k] = "recv"
    /\ queue_lock = k
    /\ IF queue # <<>>
         THEN /\ rr_last' = "req"
              /\ delivered' = Append(delivered, Head(queue))
              /\ queue' = QueuePop(queue)
         ELSE /\ ~SendersAlive
              /\ rr_last' = "eos"
              /\ UNCHANGED <<delivered, queue>>
    /\ queue_lock' = 0
    /\ rr_pc' = [rr_pc EXCEPT ![k] = "idle"]
    /\ UNCHANGED otherQ
    /\ UNCHANGED <<server_task, shutdown_tx, shutdown_sig, server_handle, conn,
                   h_pc, h_req, enqueued, answered>>

\* The consumer lets go of the ServerHandle resource (no call is in progress):
\* the queue's receiver and the requests still in it are dropped, and so is
\* shutdown_tx if it was never taken.
DropServerHandle ==
    /\ server_handle
    /\ \A k \in Callers : rr_pc[k] = "idle"
    /\ server_handle' = FALSE
    /\ queue' = <<>>
    /\ shutdown_tx' = IF shutdown_tx = "Some" THEN "Dropped" ELSE shutdown_tx
    /\ UNCHANGED otherQ
    /\ UNCHANGED <<server_task, shutdown_sig, conn, h_pc, h_req, queue_lock,
                   rr_pc, rr_last, enqueued, delivered, answered>>

NextQ ==
    \/ \E c \in Conns : Accept(c)
    \/ \E c \in Conns : RequestArrives(c)
    \/ \E c \in Conns : Enqueue(c)
    \/ \E c \in Conns : BuildDone(c)
    \/ \E c \in Conns : ConnClose(c)
    \/ Shutdown
    \/ ServerTaskStop
    \/ ServerTaskFail
    \/ \E k \in Callers : RRCall(k)
    \/ \E k \in Callers : RRLock(k)
    \/ \E k \in Callers : RRRecv(k)
    \/ DropServerHandle


(***************************************************************************)
(* SpecB: the body of one request.                                         *)
(***************************************************************************)
SeqsUpTo(S, n) == UNION {[1..k -> S] : k \in 0..n}

\* Bytes are sequences of byte values. The pump takes the bytes of any data
\* frame, of an empty one too: it has no emptiness test.
DataChunks == {<<>>, <<1>>, <<2>>}

DataFrame(b) == [kind |-> "data", bytes |-> b]
TrailersFrame == [kind |-> "trailers", bytes |-> <<>>]
Frames == {DataFrame(b) : b \in DataChunks} \cup {TrailersFrame}

\* The frames of the body of a connection served by http1::Builder: hyper's
\* HTTP/1 decoder ends the body on an empty read and yields no empty data
\* frame.
Http1Frames == {f \in Frames : f.kind = "data" => f.bytes # <<>>}

\* Result<Bytes, String> items of the body channel
OkItem(b) == [tag |-> "ok", bytes |-> b]
ErrItem == [tag |-> "err", bytes |-> <<>>]
NoItem == [tag |-> "none", bytes |-> <<>>]

\* results of read_body_chunk
ChunkRes(b) == [res |-> "chunk", bytes |-> b]
EosRes == [res |-> "eos", bytes |-> <<>>]
ErrRes == [res |-> "err", bytes |-> <<>>]
ConsumedRes == [res |-> "consumed", bytes |-> <<>>]

\* read_body_chunk calls the consumer makes on one request
MaxReads == MaxFrames + 2

\* handle_request has created the body channel and the RequestHandle and
\* spawned the pump; w and e are what the wire will deliver.
InitBody(w, e) ==
    /\ wire_all = w
    /\ wire_end = e
    /\ wire_pos = 0
    /\ wire_cut = FALSE
    /\ pump_pc = "frame"
    /\ pump_item = NoItem
    /\ pump_saw = "none"
    /\ body_ch = <<>>
    /\ body_rx = "Some"
    /\ rd_pc = "idle"
    /\ read_log = <<>>

InitB == \E w \in SeqsUpTo(Http1Frames, MaxFrames), e \in {"end", "err"} : InitBody(w, e)

\* the same with a body of any frames, empty data frames among them
InitBAny == \E w \in SeqsUpTo(Frames, MaxFrames), e \in {"end", "err"} : InitBody(w, e)

IdleB == InitBody(<<>>, "end")

\* The pump got Some(Err(e)): it will forward the error marker and stop.
PumpGotErr ==
    /\ pump_item' = ErrItem
    /\ pump_saw' = "err"
    /\ pump_pc' = "send_last"
    /\ UNCHANGED wire_pos

\* The pump got the next frame, or the end of the body.
PumpGotNext ==
    IF wire_pos < Len(wire_all)
      THEN LET f == wire_all[wire_pos + 1] IN
           /\ wire_pos' = wire_pos + 1
           /\ UNCHANGED pump_saw
           /\ IF f.kind = "data"
                THEN pump_item' = OkItem(f.bytes) /\ pump_pc' = "send"
                ELSE UNCHANGED <<pump_item, pump_pc>>
      ELSE IF wire_end = "err"
             THEN PumpGotErr
             ELSE /\ pump_item' = OkItem(<<>>)
                  /\ pump_saw' = "end"
                  /\ pump_pc' = "send_last"
                  /\ UNCHANGED wire_pos

\* body.frame().await in the pump loop: a data frame is to be forwarded, a
\* frame without data is skipped, an error is to be forwarded as the error
\* marker, the end of the body as an empty chunk. Once the connection is
\* closed the body may fail instead of yielding what is left.
PumpFrame ==
    /\ pump_pc = "frame"
    /\ \/ PumpGotNext
       \/ wire_cut /\ PumpGotErr
    /\ UNCHANGED <<wire_all, wire_end, wire_cut, body_ch, body_rx, rd_pc, read_log>>
    /\ UNCHANGED otherB

\* a pump that drops the item when the channel is full instead of waiting
PumpSend_DropWhenFull ==
    /\ pump_pc \in {"send", "send_last"}
    /\ IF body_rx = "Dropped"
         THEN pump_pc' = "done" /\ UNCHANGED body_ch
         ELSE /\ body_ch' = IF Len(body_ch) < BodyCap
                              THEN Append(body_ch, pump_item) ELSE body_ch
              /\ pump_pc' = IF pump_pc = "send" THEN "frame" ELSE "done"
    /\ pump_item' = NoItem
    /\ UNCHANGED <<wire_all, wire_end, wire_pos, wire_cut, pump_saw, body_rx,
                   rd_pc, read_log>>
    /\ UNCHANGED otherB

\* body_tx.send(..).await in the pump: fails when the receiver is dropped (the
\* pump stops), waits while the channel is full; after a data chunk the loop
\* goes on, after the error marker or the EOF chunk the pump ends and drops
\* body_tx.
PumpSend ==
    /\ pump_pc \in {"send", "send_last"}
    /\ IF body_rx = "Dropped"
         THEN pump_pc' = "done" /\ UNCHANGED body_ch
         ELSE /\ Len(body_ch) < BodyCap
              /\ body_ch' = Append(body_ch, pump_item)
              /\ pump_pc' = IF pump_pc = "send" THEN "frame" ELSE "done"
    /\ pump_item' = NoItem
    /\ UNCHANGED <<wire_all, wire_end, wire_pos, wire_cut, pump_saw, body_rx,
                   rd_pc, read_log>>
    /\ UNCHANGED otherB

\* read_body_chunk is called: under the body_rx mutex, either the receiver is
\* there and the call awaits recv, or the call fails with "Body stream already
\* consumed".
ReadCall ==
    /\ rd_pc = "idle"
    /\ body_rx # "Dropped"
    /\ Len(read_log) < MaxReads
    /\ IF body_rx = "Some"
         THEN rd_pc' = "recv" /\ UNCHANGED read_log
         ELSE read_log' = Append(read_log, ConsumedRes) /\ UNCHANGED rd_pc
    /\ UNCHANGED <<wire_all, wire_end, wire_pos, wire_cut, pump_pc, pump_item,
                   pump_saw, body_ch, body_rx>>
    /\ UNCHANGED otherB

\* a read that takes the error marker for the end of the body
ReadResult_ErrAsEos(item) ==
    IF item.tag = "ok" /\ item.bytes # <<>> THEN ChunkRes(item.bytes) ELSE EosRes

\* the match of read_body_chunk on a received item
ReadResult(item) ==
    IF item.tag = "ok"
      THEN IF item.bytes = <<>> THEN EosRes ELSE ChunkRes(item.bytes)
      ELSE ErrRes

\* rx.recv().await returned: an item, or None once the channel is empty and
\* the pump has dropped body_tx.
ReadRecv ==
    /\ rd_pc = "recv"
    /\ IF body_ch # <<>>
         THEN /\ read_log' = Append(read_log, ReadResult(Head(body_ch)))
              /\ body_ch' = Tail(body_ch)
         ELSE /\ pump_pc = "done"
              /\ read_log' = Append(read_log, EosRes)
              /\ UNCHANGED body_ch
    /\ rd_pc' = "idle"
    /\ UNCHANGED <<wire_all, wire_end, wire_pos, wire_cut, pump_pc, pump_item,
                   pump_saw, body_rx>>
    /\ UNCHANGED otherB

\* The consumer lets go of the RequestHandle (no call is in progress): the
\* body receiver and what the channel holds are dropped.
DropRequestB ==
    /\ rd_pc = "idle"
    /\ body_rx = "Some"
    /\ body_rx' = "Dropped"
    /\ body_ch' = <<>>
    /\ UNCHANGED <<wire_all, wire_end, wire_pos, wire_cut, pump_pc, pump_item,
                   pump_saw, rd_pc, read_log>>
    /\ UNCHANGED otherB

\* The connection is closed while the pump still reads the body.
ConnCloseB ==
    /\ ~wire_cut
    /\ pump_pc \in {"frame", "send"}
    /\ wire_cut' = TRUE
    /\ UNCHANGED <<wire_all, wire_end, wire_pos, pump_pc, pump_item, pump_saw,
                   body_ch, body_rx, rd_pc, read_log>>
    /\ UNCHANGED otherB

NextB ==
    \/ PumpFrame
    \/ PumpSend
    \/ ReadCall
    \/ ReadRecv
    \/ DropRequestB
    \/ ConnCloseB

(***************************************************************************)
(* SpecR, SpecU: the response of one request.                              *)
(***************************************************************************)
\* str::to_ascii_lowercase on the names of the model
AsciiLower(n) ==
    CASE n = "X-A" -> "x-a"
      [] n = "X-Test" -> "x-test"
      [] n = "Upgrade" -> "upgrade"
      [] n = "Connection" -> "connection"
      [] n = "Sec-WebSocket-Accept" -> "sec-websocket-accept"
      [] n = "Sec-WebSocket-Key" -> "sec-websocket-key"
      [] OTHER -> n

\* str::eq_ignore_ascii_case
EqIgnoreAsciiCase(a, b) == AsciiLower(a) = AsciiLower(b)

\* a header value that holds a byte outside visible ASCII
NonAsciiValue == "0xFF"

\* HeaderValue::to_str().unwrap_or("")
HeaderValueToStr(v) == IF v = NonAsciiValue THEN "" ELSE v

RECURSIVE HeaderMapIter(_, _)
\* The pairs of an http::HeaderMap filled by appending hs, as it yields them:
\* the names in order of first appearance, each with its values in order.
HeaderMapIter(hs, seen) ==
    IF hs = <<>> THEN <<>>
    ELSE LET n == hs[1][1]
             Same(h) == h[1] = n
         IN IF n \in seen
              THEN HeaderMapIter(Tail(hs), seen)
              ELSE SelectSeq(hs, Same) \o HeaderMapIter(Tail(hs), seen \cup {n})

\* header names as a HeaderMap holds them: in lower case
LowerNames(hs) == [i \in 1..Len(hs) |-> <<AsciiLower(hs[i][1]), hs[i][2]>>]

\* extract_metadata: the header pairs of the request as headers.iter() yields
\* them from hyper's HeaderMap; a value that is not visible ASCII becomes "".
extract_metadata(hs) ==
    LET it == HeaderMapIter(LowerNames(hs), {})
    IN [i \in 1..Len(it) |-> <<it[i][1], HeaderValueToStr(it[i][2])>>]

SampleKey == "dGhlIHNhbXBsZSBub25jZQ=="
OtherKey == "AAAAAAAAAAAAAAAAAAAAAA=="

WireHeaderChoices ==
    { <<>>,
      << <<"X-Test", "1">> >>,
      << <<"X-Test", NonAsciiValue>> >>,
      << <<"sec-websocket-key", SampleKey>> >>,
      << <<"X-Test", "1">>, <<"Sec-WebSocket-Key", SampleKey>> >>,
      << <<"Sec-WebSocket-Key", OtherKey>>, <<"X-Test", "1">>,
         <<"sec-websocket-key", SampleKey>> >> }

\* ResponseMessage
Status(s) == [t |-> "Status", code |-> s, name |-> "", value |-> "", bytes |-> <<>>]
Header(n, v) == [t |-> "Header", code |-> 0, name |-> n, value |-> v, bytes |-> <<>>]
BodyChunk(b) == [t |-> "BodyChunk", code |-> 0, name |-> "", value |-> "", bytes |-> b]
Finish == [t |-> "Finish", code |-> 0, name |-> "", value |-> "", bytes |-> <<>>]

\* what the consumer of the model sends
StatusCodes == {99, 201, 404}
\* a header value that holds a control byte
ControlValue == "0x0A"
\* the header sequences of a consumer that keeps the order: one name twice
\* around another name, an empty name, a value with a control byte
HeaderSeqs ==
    { << <<"x-a", "1">>, <<"x-b", "1">>, <<"X-A", "2">> >>,
      << <<"x-b", "1">>, <<"x-a", "1">> >>,
      << <<"", "1">> >>,
      << <<"x-a", "1">>, <<"x-b", ControlValue>> >> }
RespHeaders == UNION {Range(hs) : hs \in HeaderSeqs}
RespChunks == {<<1>>, <<2>>}

MsgsR == {Status(c) : c \in StatusCodes}
            \cup {Header(h[1], h[2]) : h \in RespHeaders}
            \cup {BodyChunk(b) : b \in RespChunks}
            \cup {Finish}

\* what a consumer that keeps no order sends
MsgsAny == {Status(404), Status(201), Header("x-a", "1"), BodyChunk(<<1>>), Finish}

\* what the consumer of SpecU sends
MsgsU == {Status(404), Header("x-a", "1"), BodyChunk(<<1>>), Finish}

Upgraders == {1, 2}

\* the messages of a trace of calls
MsgsOf(tr) == [i \in 1..Len(tr) |-> tr[i].msg]

\* number of messages of kind k in t
CountKind(t, k) == Cardinality({i \in 1..Len(t) : t[i].t = k})

\* t keeps the order Status, Header*, BodyChunk*, Finish (or is a prefix of it)
InOrder(t) ==
    /\ Len(t) >= 1 => t[1].t = "Status"
    /\ \A i \in 2..Len(t) : t[i].t # "Status"
    /\ \A i, j \in 1..Len(t) : (i < j /\ t[i].t = "BodyChunk") => t[j].t # "Header"
    /\ \A i \in 1..Len(t) : t[i].t = "Finish" => i = Len(t)

\* the header pairs of the Header messages of t, in order
HeadersOf(t) ==
    LET IsH(m) == m.t = "Header"
        hs == SelectSeq(t, IsH)
    IN [i \in 1..Len(hs) |-> <<hs[i].name, hs[i].value>>]

\* the calls SpecR lets the consumer make: a few calls in any order, or calls
\* in the order Status, Header*, BodyChunk*, Finish
TraceAllowed(t) ==
    \/ Len(t) <= MaxAny /\ Range(t) \subseteq MsgsAny
    \/ /\ InOrder(t)
       /\ \E hs \in HeaderSeqs : \E k \in 0..Len(hs) : HeadersOf(t) = SubSeq(hs, 1, k)
       /\ CountKind(t, "BodyChunk") <= MaxChunks

\* ResponseBuilder::new
NewBuilder == [status |-> 0, headers |-> <<>>, body_chunks |-> <<>>]

NoResponse == [status |-> 0, headers |-> <<>>, body |-> <<>>]

\* The upgrade slot of a new request context. RequestHandle as given
\* (request.rs:20-27) has no field for it and handle_request stores no
\* upgrade future; the slot is the at-most-once capability of the design,
\* available when the context is created.
NewUpgradeSlot == "Available"

\* handle_request has created the response-part channel and the
\* RequestHandle; the consumer has received the request.
InitResp(hs) ==
    /\ wire_headers = hs
    /\ req_headers = extract_metadata(hs)
    /\ response_tx = "Some"
    /\ resp_ch = <<>>
    /\ resp_rx = "open"
    /\ builder = NewBuilder
    /\ resp_state = "building"
    /\ response = NoResponse
    /\ trace = <<>>
    /\ upgrade_slot = NewUpgradeSlot
    /\ up_pc = [u \in Upgraders |-> "idle"]
    /\ up_idx = [u \in Upgraders |-> 1]
    /\ up_res = [u \in Upgraders |-> "none"]
    /\ up_took = [u \in Upgraders |-> FALSE]
    /\ up_late = [u \in Upgraders |-> FALSE]
    /\ up_first = [u \in Upgraders |-> FALSE]
    /\ ws_handles = 0
    /\ up_sent = [u \in Upgraders |-> <<>>]

InitR == InitResp(<<>>)

InitU == \E hs \in WireHeaderChoices : InitResp(hs)

IdleR == InitResp(<<>>)

\* StatusCode::from_u16(code).unwrap_or(INTERNAL_SERVER_ERROR)
u16_to_status(code) == IF code >= 100 /\ code <= 999 THEN code ELSE 500

\* a builder that keeps the first status it was given
set_status_KeepFirst(b, s) ==
    IF b.status = 0 THEN [b EXCEPT !.status = u16_to_status(s)] ELSE b

set_status(b, s) == [b EXCEPT !.status = u16_to_status(s)]

add_header(b, n, v) == [b EXCEPT !.headers = Append(@, <<n, v>>)]

\* a builder that puts the new chunk in front of the others
add_body_chunk_Front(b, c) == [b EXCEPT !.body_chunks = <<c>> \o @]

add_body_chunk(b, c) == [b EXCEPT !.body_chunks = Append(@, c)]

\* HeaderName::try_from(String): a header name is a non-empty token
ValidHeaderName(n) == n # ""

\* HeaderValue::try_from(String): no control byte but the tab
ValidHeaderValue(v) == v # ControlValue

RECURSIVE Concat(_)
\* the bytes of a sequence of chunks
Concat(cs) == IF cs = <<>> THEN <<>> ELSE Head(cs) \o Concat(Tail(cs))

\* ResponseBuilder::build: the status (200 when none was set), the headers
\* appended to the response, the body made of the chunks; an error when a
\* header name or value is not valid.
build(b) ==
    IF \E i \in 1..Len(b.headers) :
          ~ValidHeaderName(b.headers[i][1]) \/ ~ValidHeaderValue(b.headers[i][2])
      THEN [ok |-> FALSE, resp |-> NoResponse]
      ELSE [ok |-> TRUE,
            resp |-> [status |-> IF b.status = 0 THEN 200 ELSE b.status,
                      headers |-> HeaderMapIter(LowerNames(b.headers), {}),
                      body |-> Concat(b.body_chunks)]]

\* the bytes of "Internal Server Error"
InternalServerError ==
    <<73, 110, 116, 101, 114, 110, 97, 108, 32, 83, 101, 114, 118, 101, 114,
      32, 69, 114, 114, 111, 114>>

error_response(status, message) ==
    [status |-> u16_to_status(status),
     headers |-> << <<"content-type", "text/plain">> >>,
     body |-> message]

\* the bytes of "Server Error"
ServerError == <<83, 101, 114, 118, 101, 114, 32, 69, 114, 114, 111, 114>>

\* what handle_request answers when request_tx.send fails
EnqueueFailResponse == error_response(500, ServerError)

\* the end of handle_request: the built response, or a 500 when build failed
HandlerResponse(b) ==
    IF build(b).ok THEN build(b).resp ELSE error_response(500, InternalServerError)

\* a send that reports success although the receiver is gone
Send_IgnoreClosed(m) ==
    /\ response_tx # "Dropped"
    /\ IF response_tx = "None"
         THEN trace' = Append(trace, [msg |-> m, ok |-> FALSE]) /\ UNCHANGED resp_ch
         ELSE IF resp_rx = "dropped"
         THEN trace' = Append(trace, [msg |-> m, ok |-> TRUE]) /\ UNCHANGED resp_ch
         ELSE /\ Len(resp_ch) < RespCap
              /\ resp_ch' = Append(resp_ch, m)
              /\ trace' = Append(trace, [msg |-> m, ok |-> TRUE])
    /\ UNCHANGED <<wire_headers, req_headers, response_tx, resp_rx, builder,
                   resp_state, response, upVars>>
    /\ UNCHANGED otherR

\* send_status, send_header, write_chunk, finish: get_response_sender, then
\* tx.send(m).await: an error when the receiver is dropped, suspended while
\* the channel is full, otherwise the message is appended and Ok returned.
Send(m) ==
    /\ response_tx # "Dropped"
    /\ IF response_tx = "None"
         THEN trace' = Append(trace, [msg |-> m, ok |-> FALSE]) /\ UNCHANGED resp_ch
         ELSE IF resp_rx = "dropped"
         THEN trace' = Append(trace, [msg |-> m, ok |-> FALSE]) /\ UNCHANGED resp_ch
         ELSE /\ Len(resp_ch) < RespCap
              /\ resp_ch' = Append(resp_ch, m)
              /\ trace' = Append(trace, [msg |-> m, ok |-> TRUE])
    /\ UNCHANGED <<wire_headers, req_headers, response_tx, resp_rx, builder,
                   resp_state, response, upVars>>
    /\ UNCHANGED otherR

\* The senders of the response-part channel: the response_tx that
\* handle_request keeps for itself while it runs (only a clone goes into the
\* RequestHandle, server.rs:122-125), the RequestHandle's sender, and the
\* clones that calls in progress hold.
RespSendersAlive ==
    \/ resp_state = "building"
    \/ response_tx # "Dropped"
    \/ \E u \in Upgraders : up_pc[u] = "send"

\* One turn of the loop of build_response_from_channel: the next message is
\* applied to the builder; on Finish (or on None, when every sender is
\* dropped) the loop ends, the response is built and handle_request returns
\* it, dropping the receiver and its own response_tx.
BuilderRecv ==
    /\ resp_state = "building"
    /\ resp_rx = "open"
    /\ resp_ch # <<>> \/ ~RespSendersAlive
    /\ LET m == IF resp_ch # <<>> THEN Head(resp_ch) ELSE Finish IN
       IF m.t = "Finish"
         THEN /\ response' = HandlerResponse(builder)
              /\ resp_state' = "written"
              /\ resp_rx' = "dropped"
              /\ resp_ch' = <<>>
              /\ UNCHANGED builder
         ELSE /\ builder' = CASE m.t = "Status" -> set_status(builder, m.code)
                              [] m.t = "Header" -> add_header(builder, m.name, m.value)
                              [] OTHER -> add_body_chunk(builder, m.bytes)
              /\ resp_ch' = Tail(resp_ch)
              /\ UNCHANGED <<response, resp_state, resp_rx>>
    /\ UNCHANGED <<wire_headers, req_headers, response_tx, trace, upVars>>
    /\ UNCHANGED otherR

\* The connection is closed while handle_request awaits the response: the
\* future is dropped with the receiver, nothing is written.
ConnCloseR ==
    /\ resp_state = "building"
    /\ resp_state' = "aborted"
    /\ resp_rx' = "dropped"
    /\ resp_ch' = <<>>
    /\ UNCHANGED <<wire_headers, req_headers, response_tx, builder, response,
                   trace, upVars>>
    /\ UNCHANGED otherR

\* The consumer lets go of the RequestHandle (no call is in progress).
\* handle_request still holds its own response_tx, so the channel stays open.
DropRequestR ==
    /\ response_tx = "Some"
    /\ \A u \in Upgraders : up_pc[u] \in {"idle", "done"}
    /\ response_tx' = "Dropped"
    /\ UNCHANGED <<wire_headers, req_headers, respVars, trace, upVars>>
    /\ UNCHANGED otherR

\* the consumer of SpecR makes its next response-part call
SendR == \E m \in MsgsR : TraceAllowed(Append(MsgsOf(trace), m)) /\ Send(m)

NextR ==
    \/ SendR
    \/ BuilderRecv
    \/ ConnCloseR
    \/ DropRequestR

(***************************************************************************)
(* Strings as bytes, SHA-1 and base64, for the Sec-WebSocket-Accept value. *)
(***************************************************************************)
\* the printable ASCII characters from code 32 (space) to code 95, and from
\* code 97 to code 126
AsciiLow ==
    << " ", "!", "\"", "#", "$", "%", "&", "'", "(", ")", "*", "+",
       ",", "-", ".", "/", "0", "1", "2", "3", "4", "5", "6", "7",
       "8", "9", ":", ";", "<", "=", ">", "?", "@", "A", "B", "C",
       "D", "E", "F", "G", "H", "I", "J", "K", "L", "M", "N", "O",
       "P", "Q", "R", "S", "T", "U", "V", "W", "X", "Y", "Z", "[",
       "\\", "]", "^", "_" >>

AsciiHigh ==
    << "a", "b", "c", "d", "e", "f", "g", "h", "i", "j", "k", "l",
       "m", "n", "o", "p", "q", "r", "s", "t", "u", "v", "w", "x",
       "y", "z", "{", "|", "}", "~" >>

\* the code of a printable ASCII character
AsciiCode(c) ==
    IF \E i \in 1..Len(AsciiLow) : AsciiLow[i] = c
    THEN 31 + (CHOOSE i \in 1..Len(AsciiLow) : AsciiLow[i] = c)
    ELSE 96 + (CHOOSE i \in 1..Len(AsciiHigh) : AsciiHigh[i] = c)

RECURSIVE Join(_)
\* the string made of a sequence of characters
Join(cs) == IF cs = <<>> THEN "" ELSE Head(cs) \o Join(Tail(cs))

\* the strings that get hashed, character by character
CharsOfStrings ==
    { << "d", "G", "h", "l", "I", "H", "N", "h", "b", "X", "B", "s",
         "Z", "S", "B", "u", "b", "2", "5", "j", "Z", "Q", "=", "=" >>,
      << "A", "A", "A", "A", "A", "A", "A", "A", "A", "A", "A", "A",
         "A", "A", "A", "A", "A", "A", "A", "A", "A", "A", "=", "=" >>,
      << "2", "5", "8", "E", "A", "F", "A", "5", "-", "E", "9", "1",
         "4", "-", "4", "7", "D", "A", "-", "9", "5", "C", "A", "-",
         "C", "5", "A", "B", "0", "D", "C", "8", "5", "B", "1", "1" >> }

\* str::as_bytes of an ASCII string
as_bytes(s) ==
    LET cs == CHOOSE x \in CharsOfStrings : Join(x) = s
    IN [i \in 1..Len(cs) |-> AsciiCode(cs[i])]

\* A u32 is a pair <<high 16 bits, low 16 bits>>.
RECURSIVE Pow2(_)
Pow2(n) == IF n = 0 THEN 1 ELSE 2 * Pow2(n - 1)

RECURSIVE BitOp16(_, _, _, _)
\* a bitwise operation on the low n bits of a and b
BitOp16(op, a, b, n) ==
    IF n = 0 THEN 0
    ELSE LET x == a % 2
             y == b % 2
             r == CASE op = "xor" -> (x + y) % 2
                    [] op = "and" -> x * y
                    [] OTHER -> IF x + y > 0 THEN 1 ELSE 0
         IN r + 2 * BitOp16(op, a \div 2, b \div 2, n - 1)

WXor(a, b) == <<BitOp16("xor", a[1], b[1], 16), BitOp16("xor", a[2], b[2], 16)>>
WAnd(a, b) == <<BitOp16("and", a[1], b[1], 16), BitOp16("and", a[2], b[2], 16)>>
WOr(a, b) == <<BitOp16("or", a[1], b[1], 16), BitOp16("or", a[2], b[2], 16)>>
WNot(a) == <<65535 - a[1], 65535 - a[2]>>

\* u32::wrapping_add
WAdd(a, b) ==
    LET lo == a[2] + b[2]
        hi == a[1] + b[1] + (lo \div 65536)
    IN <<hi % 65536, lo % 65536>>

\* u32::rotate_left(n), 0 <= n < 32
WRotl(a, n) ==
    LET s == IF n >= 16 THEN <<a[2], a[1]>> ELSE a
        k == n % 16
    IN IF k = 0 THEN s
       ELSE << ((s[1] * Pow2(k)) % 65536) + (s[2] \div Pow2(16 - k)),
               ((s[2] * Pow2(k)) % 65536) + (s[1] \div Pow2(16 - k)) >>

\* SHA-1 (FIPS 180-4): the initial hash value and the round constants
Sha1H0 ==
    << <<26437, 8961>>, <<61389, 43913>>, <<39098, 56574>>,
       <<4146, 21622>>, <<50130, 57840>> >>

Sha1K(t) ==
    IF t < 20 THEN <<23170, 31129>>
    ELSE IF t < 40 THEN <<28377, 60321>>
    ELSE IF t < 60 THEN <<36635, 48348>>
    ELSE <<51810, 49622>>

Sha1F(t, b, c, d) ==
    IF t < 20 THEN WOr(WAnd(b, c), WAnd(WNot(b), d))
    ELSE IF t < 40 THEN WXor(WXor(b, c), d)
    ELSE IF t < 60 THEN WOr(WOr(WAnd(b, c), WAnd(b, d)), WAnd(c, d))
    ELSE WXor(WXor(b, c), d)

RECURSIVE Zeros(_)
Zeros(n) == IF n = 0 THEN <<>> ELSE <<0>> \o Zeros(n - 1)

\* the message with its padding: the bit 1, zeros up to 56 mod 64 bytes, and
\* the length in bits as a 64-bit big-endian number
Sha1Pad(bs) ==
    LET n == 8 * Len(bs)
        z == (119 - (Len(bs) % 64)) % 64
    IN bs \o <<128>> \o Zeros(z)
          \o << 0, 0, 0, 0, (n \div 16777216) % 256, (n \div 65536) % 256,
                (n \div 256) % 256, n % 256 >>

\* the 16 big-endian words of the 64-byte block that starts after byte o
Sha1Words(bs, o) ==
    [j \in 1..16 |-> << bs[o + 4 * j - 3] * 256 + bs[o + 4 * j - 2],
                        bs[o + 4 * j - 1] * 256 + bs[o + 4 * j] >>]

RECURSIVE Sha1Extend(_, _)
\* the message schedule w with its next k words, each made of four earlier
\* ones; the work is halved so that no evaluation nests deeply
Sha1Extend(w, k) ==
    IF k = 0 THEN w
    ELSE IF k = 1
    THEN LET t == Len(w) + 1
         IN Append(w, WRotl(WXor(WXor(w[t - 3], w[t - 8]),
                                 WXor(w[t - 14], w[t - 16])), 1))
    ELSE LET m == Sha1Extend(w, k \div 2)
         IN IF Len(m) > 0 THEN Sha1Extend(m, k - (k \div 2)) ELSE <<>>

\* the message schedule: 80 words from the block's 16
Sha1Schedule(w) == Sha1Extend(w, 64)

\* one round on <<a, b, c, d, e>>, t in 0..79
Sha1Round(s, t, w) ==
    LET temp == WAdd(WAdd(WAdd(WAdd(WRotl(s[1], 5), Sha1F(t, s[2], s[3], s[4])),
                               s[5]), Sha1K(t)), w[t + 1])
    IN <<temp, s[1], WRotl(s[2], 30), s[3], s[4]>>

RECURSIVE Sha1Rounds(_, _, _, _)
\* rounds t .. t + k - 1, halved in the same way
Sha1Rounds(s, t, k, w) ==
    IF k = 1 THEN Sha1Round(s, t, w)
    ELSE LET m == Sha1Rounds(s, t, k \div 2, w)
         IN IF Len(m) = 5
              THEN Sha1Rounds(m, t + (k \div 2), k - (k \div 2), w)
              ELSE <<>>

\* the hash value after one more block
Sha1Block(h, bs, o) ==
    LET w == Sha1Schedule(Sha1Words(bs, o))
        s == IF Len(w) = 80 THEN Sha1Rounds(h, 0, 80, w) ELSE <<>>
    IN [i \in 1..5 |-> WAdd(h[i], s[i])]

RECURSIVE Sha1Blocks(_, _, _)
Sha1Blocks(h, bs, o) ==
    IF o >= Len(bs) THEN h
    ELSE LET n == Sha1Block(h, bs, o)
         IN IF Len(n) = 5 THEN Sha1Blocks(n, bs, o + 64) ELSE <<>>

\* Sha1::update(bytes) then finalize(): the 20 bytes of the digest
Sha1(bs) ==
    LET h == Sha1Blocks(Sha1H0, Sha1Pad(bs), 0)
    IN [i \in 1..20 |->
          LET w == h[((i - 1) \div 4) + 1]
              half == IF ((i - 1) % 4) < 2 THEN w[1] ELSE w[2]
          IN IF (i - 1) % 2 = 0 THEN half \div 256 ELSE half % 256]

\* the alphabet of base64's STANDARD engine
Base64Alphabet ==
    << "A", "B", "C", "D", "E", "F", "G", "H", "I", "J", "K", "L",
       "M", "N", "O", "P", "Q", "R", "S", "T", "U", "V", "W", "X",
       "Y", "Z", "a", "b", "c", "d", "e", "f", "g", "h", "i", "j",
       "k", "l", "m", "n", "o", "p", "q", "r", "s", "t", "u", "v",
       "w", "x", "y", "z", "0", "1", "2", "3", "4", "5", "6", "7",
       "8", "9", "+", "/" >>

RECURSIVE Base64Encode(_)
\* general_purpose::STANDARD.encode: three bytes to four characters, the
\* last group padded with "="
Base64Encode(bs) ==
    LET A(i) == Base64Alphabet[i + 1] IN
    IF bs = <<>> THEN ""
    ELSE IF Len(bs) = 1
    THEN A(bs[1] \div 4) \o A((bs[1] % 4) * 16) \o "=="
    ELSE IF Len(bs) = 2
    THEN A(bs[1] \div 4) \o A((bs[1] % 4) * 16 + (bs[2] \div 16))
           \o A((bs[2] % 16) * 4) \o "="
    ELSE A(bs[1] \div 4) \o A((bs[1] % 4) * 16 + (bs[2] \div 16))
           \o A((bs[2] % 16) * 4 + (bs[3] \div 64)) \o A(bs[3] % 64)
           \o Base64Encode(SubSeq(bs, 4, Len(bs)))

(***************************************************************************)
(* upgrade_websocket (SpecU).                                              *)
(***************************************************************************)
\* a slot that a take leaves as it was
take_upgrade_Clone(slot) == [some |-> slot = "Available", slot |-> slot]

\* a request context that holds no upgrade capability at all
take_upgrade_Never(slot) == [some |-> FALSE, slot |-> slot]

\* RequestHandle::take_upgrade is called by lib.rs but not defined in
\* request.rs; it is modelled as the at-most-once capability the design
\* describes: the first take yields the upgrade future, every later one
\* yields None. It is called with the handle alone (lib.rs:232-235), and
\* send_status, send_header, write_chunk and finish write nothing into the
\* handle (they send on a clone of the sender, request.rs:74-77), so what
\* it yields is a function of the slot and of nothing that was sent.
take_upgrade(slot) ==
    [some |-> slot = "Available", slot |-> "Taken"]

\* headers.iter().find(|(k, _)| k.eq_ignore_ascii_case("sec-websocket-key")):
\* the place of the first such header, 0 when there is none
FindKey(hs) ==
    LET S == {i \in 1..Len(hs) : EqIgnoreAsciiCase(hs[i][1], "sec-websocket-key")}
    IN IF S = {} THEN 0 ELSE CHOOSE i \in S : \A j \in S : i <= j

WS_GUID == "258EAFA5-E914-47DA-95CA-C5AB0DC85B11"

\* the Sec-WebSocket-Key values of the requests modelled
KeyValues == {SampleKey, OtherKey}

\* sha1.update(ws_key), sha1.update(WS_GUID), STANDARD.encode(sha1.finalize()),
\* computed once for each key
AcceptOf ==
    [k \in KeyValues |->
        Base64Encode(Sha1(as_bytes(k) \o as_bytes(WS_GUID)))]

\* the Sec-WebSocket-Accept value for a key
WsAccept(key) == AcceptOf[key]

\* a handshake that sends its headers before the status
HandshakeMsg_Swapped(i, accept) ==
    CASE i = 1 -> Header("Upgrade", "websocket")
      [] i = 2 -> Status(101)
      [] i = 3 -> Header("Connection", "Upgrade")
      [] i = 4 -> Header("Sec-WebSocket-Accept", accept)
      [] OTHER -> Finish

\* the five messages of the handshake response, in the order sent
HandshakeMsg(i, accept) ==
    CASE i = 1 -> Status(101)
      [] i = 2 -> Header("Upgrade", "websocket")
      [] i = 3 -> Header("Connection", "Upgrade")
      [] i = 4 -> Header("Sec-WebSocket-Accept", accept)
      [] OTHER -> Finish

SentSomething == \E i \in 1..Len(trace) : trace[i].ok

\* upgrade_websocket up to its first send: take the upgrade slot ("Not an
\* upgradeable request" when it is gone), look up Sec-WebSocket-Key ("Missing
\* Sec-WebSocket-Key header"), compute the accept value, get the response
\* sender ("Response already sent" when there is none).
UpgradeStart(u) ==
    /\ up_pc[u] = "idle"
    /\ response_tx # "Dropped"
    /\ up_late' = [up_late EXCEPT ![u] = SentSomething]
    /\ up_first' = [up_first EXCEPT ![u] = upgrade_slot = NewUpgradeSlot]
    /\ LET t == take_upgrade(upgrade_slot) IN
       /\ upgrade_slot' = t.slot
       /\ up_took' = [up_took EXCEPT ![u] = t.some]
       /\ IF ~t.some
            THEN /\ up_res' = [up_res EXCEPT ![u] = "not_upgradeable"]
                 /\ up_pc' = [up_pc EXCEPT ![u] = "done"]
            ELSE IF FindKey(req_headers) = 0
            THEN /\ up_res' = [up_res EXCEPT ![u] = "missing_key"]
                 /\ up_pc' = [up_pc EXCEPT ![u] = "done"]
            ELSE IF response_tx = "None"
            THEN /\ up_res' = [up_res EXCEPT ![u] = "already_sent"]
                 /\ up_pc' = [up_pc EXCEPT ![u] = "done"]
            ELSE /\ up_pc' = [up_pc EXCEPT ![u] = "send"]
                 /\ UNCHANGED up_res
    /\ UNCHANGED <<wire_headers, req_headers, response_tx, respVars, trace,
                   up_idx, ws_handles, up_sent>>
    /\ UNCHANGED otherR

\* One tx.send(..).await of the handshake: Status(101), the three headers,
\* Finish. A failed send ends the call with an error; after Finish the call
\* awaits the upgrade future.
UpgradeSend(u) ==
    /\ up_pc[u] = "send"
    /\ IF resp_rx = "dropped"
         THEN /\ up_res' = [up_res EXCEPT ![u] = "send_failed"]
              /\ up_pc' = [up_pc EXCEPT ![u] = "done"]
              /\ UNCHANGED <<resp_ch, up_idx, up_sent>>
         ELSE /\ Len(resp_ch) < RespCap
              /\ LET m == HandshakeMsg(up_idx[u],
                               WsAccept(req_headers[FindKey(req_headers)][2]))
                 IN /\ resp_ch' = Append(resp_ch, m)
                    /\ up_sent' = [up_sent EXCEPT ![u] = Append(@, m)]
              /\ up_idx' = [up_idx EXCEPT ![u] = @ + 1]
              /\ up_pc' = [up_pc EXCEPT ![u] = IF up_idx[u] = 5 THEN "await" ELSE "send"]
              /\ UNCHANGED up_res
    /\ UNCHANGED <<wire_headers, req_headers, response_tx, resp_rx, builder,
                   resp_state, response, trace, upgrade_slot, up_took, up_late, up_first,
                   ws_handles>>
    /\ UNCHANGED otherR

\* upgrade_future.await and what follows it. The future is the one
\* take_upgrade yielded, and it resolves when hyper is done with the request:
\* Ok(upgraded) only once the 101 response was written, and then
\* WebSocketStream::from_raw_socket and WebSocketHandle::new make the handle
\* the call returns; Err(e) ends the call with "Upgrade failed: ..", which
\* is also what a connection served without with_upgrades() (server.rs:99-101)
\* makes of a written 101. Which of the two a written 101 leads to is decided
\* outside lib.rs, so both are outcomes of the step.
UpgradeAwait(u) ==
    /\ up_pc[u] = "await"
    /\ resp_state # "building"
    /\ \/ /\ resp_state = "written"
          /\ response.status = 101
          /\ ws_handles' = ws_handles + 1
          /\ up_res' = [up_res EXCEPT ![u] = "ok"]
       \/ /\ up_res' = [up_res EXCEPT ![u] = "upgrade_failed"]
          /\ UNCHANGED ws_handles
    /\ up_pc' = [up_pc EXCEPT ![u] = "done"]
    /\ UNCHANGED <<wire_headers, req_headers, response_tx, respVars, trace,
                   upgrade_slot, up_idx, up_took, up_late, up_first, up_sent>>
    /\ UNCHANGED otherR

\* the consumer of SpecU makes its next response-part call
SendU == \E m \in MsgsU : Len(trace) < MaxSendsU /\ Send(m)

NextU ==
    \/ SendU
    \/ BuilderRecv
    \/ ConnCloseR
    \/ DropRequestR
    \/ \E u \in Upgraders : UpgradeStart(u)
    \/ \E u \in Upgraders : UpgradeSend(u)
    \/ \E u \in Upgraders : UpgradeAwait(u)

(***************************************************************************)
(* SpecW: one WebSocketHandle.                                             *)
(***************************************************************************)
\* the caller that sends (ws_send_text, ws_send_binary, ws_close) and the
\* caller that receives (ws_recv)
WsProcs == {"s", "r"}

\* Frame kinds the stream yields. tungstenite's reader yields no raw frame
\* (WsMessage::Frame), so recv_frame meets classified frames only.
PeerFrames == {"text", "ping", "close"}

\* the message kind of WsMessage::Frame
RawFrame == "raw"

\* a conversion without the arm for Ping, which takes the arm of the raw frame
from_ws_message_NoPingArm(msg) ==
    IF msg \in {RawFrame, "ping"} THEN [some |-> FALSE, frame |-> "none"]
    ELSE [some |-> TRUE, frame |-> msg]

\* Frame::from_ws_message: Some(frame) of the same kind, None for a raw frame
from_ws_message(msg) ==
    IF msg = RawFrame THEN [some |-> FALSE, frame |-> "none"]
    ELSE [some |-> TRUE, frame |-> msg]

\* the match of ws_recv on what recv_frame returned: the frame's atom, or
\* closed for None
ws_recv_result(opt) == IF opt.some THEN opt.frame ELSE "closed"

\* the handle and the connection as a caller finds them
WsNow == [closed |-> ws_stream = "None", trig |-> ws_trig]

\* WebSocketHandle::new: the handle upgrade_websocket returns
InitW ==
    /\ ws_stream = "Some"
    /\ ws_lock = "free"
    /\ ws_pc = [p \in WsProcs |-> "idle"]
    /\ ws_op = "text"
    /\ ws_lib = "active"
    /\ ws_in = <<>>
    /\ ws_nin = 0
    /\ ws_peer = "open"
    /\ ws_trig = {}
    /\ ws_at = [p \in WsProcs |-> [closed |-> FALSE, trig |-> {}]]
    /\ ws_log = <<>>

IdleW == InitW

\* calls made so far: returned or in progress
WsCalls == Len(ws_log) + Cardinality({p \in WsProcs : ws_pc[p] # "idle"})

\* ws_send_text / ws_send_binary (op = "text") or ws_close (op = "close") is
\* called: send_frame waits for the stream mutex.
WsSendCall(op) ==
    /\ ws_pc["s"] = "idle"
    /\ WsCalls < MaxWsOps
    /\ ws_pc' = [ws_pc EXCEPT !["s"] = "lock"]
    /\ ws_op' = op
    /\ ws_at' = [ws_at EXCEPT !["s"] = WsNow]
    /\ UNCHANGED <<ws_stream, ws_lock, ws_lib, ws_in, ws_nin, ws_peer, ws_trig,
                   ws_log>>
    /\ UNCHANGED otherW

\* ws_recv is called: recv_frame waits for the stream mutex.
WsRecvCall ==
    /\ ws_pc["r"] = "idle"
    /\ WsCalls < MaxWsOps
    /\ ws_pc' = [ws_pc EXCEPT !["r"] = "lock"]
    /\ ws_at' = [ws_at EXCEPT !["r"] = WsNow]
    /\ UNCHANGED <<ws_stream, ws_lock, ws_op, ws_lib, ws_in, ws_nin, ws_peer,
                   ws_trig, ws_log>>
    /\ UNCHANGED otherW

\* self.stream.lock().await in send_frame and in recv_frame
WsLock(p) ==
    /\ ws_pc[p] = "lock"
    /\ ws_lock = "free"
    /\ ws_lock' = p
    /\ ws_pc' = [ws_pc EXCEPT ![p] = "io"]
    /\ UNCHANGED <<ws_stream, ws_op, ws_lib, ws_in, ws_nin, ws_peer, ws_trig,
                   ws_at, ws_log>>
    /\ UNCHANGED otherW

\* The results stream.send(ws_msg).await can have: the WebSocketStream refuses
\* a message once a Close frame was sent or received; a write on a connection
\* whose incoming side has ended or failed may succeed or fail.
LibSendResults ==
    IF ws_lib # "active" THEN {"failed"}
    ELSE IF ws_peer # "open" THEN {"ok", "failed"}
    ELSE {"ok"}

\* a send_frame that does not look at the handle's state
WsSendResults_NoCheck == LibSendResults

\* the match of send_frame: Err("WebSocket closed") when the stream is gone,
\* otherwise what the stream's send gives ("Failed to send frame" on an error)
WsSendResults == IF ws_stream = "None" THEN {"closed"} ELSE LibSendResults

\* send_frame under the mutex: Err("WebSocket closed") when the stream is
\* gone, otherwise the frame is sent and an error of the stream is mapped to
\* "Failed to send frame". The handle is left as it is in every case.
WsSendIo ==
    /\ ws_pc["s"] = "io"
    /\ ws_lock = "s"
    /\ \E res \in WsSendResults :
         /\ ws_log' = Append(ws_log, [op |-> ws_op, res |-> res, at |-> ws_at["s"]])
         /\ ws_lib' = IF res = "ok" /\ ws_op = "close" THEN "close_sent" ELSE ws_lib
         /\ ws_trig' = ws_trig
                \cup (IF res = "ok" /\ ws_op = "close" THEN {"local_close"} ELSE {})
                \cup (IF res = "failed" /\ ws_lib = "active" THEN {"send_error"} ELSE {})
    /\ ws_lock' = "free"
    /\ ws_pc' = [ws_pc EXCEPT !["s"] = "idle"]
    /\ UNCHANGED <<ws_stream, ws_op, ws_in, ws_nin, ws_peer, ws_at>>
    /\ UNCHANGED otherW

\* recv_frame under the mutex: None when the stream is gone; otherwise it
\* awaits stream.next(), holding the mutex: a frame is returned (a Close frame
\* too, the handle stays as it is); on an error or the end of the stream the
\* stream is set to None and None is returned. After a Close frame was read
\* the WebSocketStream yields no further frame but its end.
WsRecvIo ==
    /\ ws_pc["r"] = "io"
    /\ ws_lock = "r"
    /\ IF ws_stream = "None"
         THEN /\ ws_log' = Append(ws_log, [op |-> "recv", res |-> "closed", at |-> ws_at["r"]])
              /\ UNCHANGED <<ws_stream, ws_lib, ws_in, ws_trig>>
         ELSE IF ws_lib = "close_seen"
         THEN /\ ws_stream' = "None"
              /\ ws_log' = Append(ws_log, [op |-> "recv", res |-> "closed", at |-> ws_at["r"]])
              /\ UNCHANGED <<ws_lib, ws_in, ws_trig>>
         ELSE IF ws_in # <<>>
         THEN /\ ws_log' = Append(ws_log,
                     [op |-> "recv", res |-> ws_recv_result(from_ws_message(Head(ws_in))),
                      at |-> ws_at["r"]])
              /\ ws_in' = Tail(ws_in)
              /\ ws_lib' = IF Head(ws_in) = "close" THEN "close_seen" ELSE ws_lib
              /\ ws_trig' = ws_trig
                     \cup (IF Head(ws_in) = "close" THEN {"close_frame"} ELSE {})
              /\ UNCHANGED ws_stream
         ELSE /\ ws_peer # "open"
              /\ ws_stream' = "None"
              /\ ws_log' = Append(ws_log, [op |-> "recv", res |-> "closed", at |-> ws_at["r"]])
              /\ ws_trig' = ws_trig \cup {IF ws_peer = "err" THEN "recv_error" ELSE "stream_end"}
              /\ UNCHANGED <<ws_lib, ws_in>>
    /\ ws_lock' = "free"
    /\ ws_pc' = [ws_pc EXCEPT !["r"] = "idle"]
    /\ UNCHANGED <<ws_op, ws_nin, ws_peer, ws_at>>
    /\ UNCHANGED otherW

\* The peer sends a frame; a Close frame is the last one it sends.
PeerSend(f) ==
    /\ ws_peer = "open"
    /\ ws_nin < MaxWsIn
    /\ ws_lib # "close_seen"
    /\ "close" \notin Range(ws_in)
    /\ ws_in' = Append(ws_in, f)
    /\ ws_nin' = ws_nin + 1
    /\ UNCHANGED <<ws_stream, ws_lock, ws_pc, ws_op, ws_lib, ws_peer, ws_trig,
                   ws_at, ws_log>>
    /\ UNCHANGED otherW

\* The incoming side of the connection ends (e = "ended") or fails (e = "err").
PeerEnd(e) ==
    /\ ws_peer = "open"
    /\ ws_peer' = e
    /\ UNCHANGED <<ws_stream, ws_lock, ws_pc, ws_op, ws_lib, ws_in, ws_nin,
                   ws_trig, ws_at, ws_log>>
    /\ UNCHANGED otherW

NextW ==
    \/ \E op \in {"text", "close"} : WsSendCall(op)
    \/ WsRecvCall
    \/ \E p \in WsProcs : WsLock(p)
    \/ WsSendIo
    \/ WsRecvIo
    \/ \E f \in PeerFrames : PeerSend(f)
    \/ \E e \in {"ended", "err"} : PeerEnd(e)

(***************************************************************************)
(* SpecS: shutdown() step by step.                                         *)
(***************************************************************************)
\* the callers of shutdown()
Stoppers == {1, 2}

InitS ==
    /\ sd_pc = [k \in Stoppers |-> "idle"]
    /\ sd_lock = 0
    /\ sd_n = [k \in Stoppers |-> 0]
    /\ sd_done = 0
    /\ sd_sends = 0

IdleS == InitS

\* what SpecS leaves alone of the server core
restQ == <<server_handle, conn, h_pc, h_req, queue, queue_lock, rr_pc, rr_last,
           enqueued, delivered, answered>>

\* server_stop: shutdown() is called and waits for the shutdown_tx mutex.
SdCall(k) ==
    /\ server_handle
    /\ sd_pc[k] = "idle"
    /\ sd_n[k] < MaxShutdowns
    /\ sd_n' = [sd_n EXCEPT ![k] = @ + 1]
    /\ sd_pc' = [sd_pc EXCEPT ![k] = "lock"]
    /\ UNCHANGED <<sd_lock, sd_done, sd_sends, server_task, shutdown_tx,
                   shutdown_sig, restQ>>
    /\ UNCHANGED otherS

\* self.shutdown_tx.lock().await
SdLock(k) ==
    /\ sd_pc[k] = "lock"
    /\ sd_lock = 0
    /\ sd_lock' = k
    /\ sd_pc' = [sd_pc EXCEPT ![k] = "take"]
    /\ UNCHANGED <<sd_n, sd_done, sd_sends, server_task, shutdown_tx,
                   shutdown_sig, restQ>>
    /\ UNCHANGED otherS

\* a shutdown that uses the sender and leaves it in place
SdTake_Keep(k) ==
    /\ sd_pc[k] = "take"
    /\ sd_lock = k
    /\ sd_pc' = [sd_pc EXCEPT ![k] = "send"]
    /\ UNCHANGED <<sd_lock, sd_n, sd_done, sd_sends, server_task, shutdown_tx,
                   shutdown_sig, restQ>>
    /\ UNCHANGED otherS

\* if let Some(tx) = guard.take(): with the sender the call goes on to send;
\* without it the call returns, dropping the guard.
SdTake(k) ==
    /\ sd_pc[k] = "take"
    /\ sd_lock = k
    /\ IF shutdown_tx = "Some"
         THEN /\ shutdown_tx' = "None"
              /\ sd_pc' = [sd_pc EXCEPT ![k] = "send"]
              /\ UNCHANGED <<sd_lock, sd_done>>
         ELSE /\ sd_pc' = [sd_pc EXCEPT ![k] = "idle"]
              /\ sd_lock' = 0
              /\ sd_done' = sd_done + 1
              /\ UNCHANGED shutdown_tx
    /\ UNCHANGED <<sd_n, sd_sends, server_task, shutdown_sig, restQ>>
    /\ UNCHANGED otherS

\* let _ = tx.send(()).await: an error (ignored) when the server task has
\* ended and dropped shutdown_rx, suspended while the channel of capacity 1
\* is full, otherwise the signal is put into the channel. The call returns,
\* dropping the sender and the guard.
SdSend(k) ==
    /\ sd_pc[k] = "send"
    /\ sd_lock = k
    /\ IF server_task = "stopped"
         THEN UNCHANGED shutdown_sig
         ELSE /\ shutdown_sig < 1
              /\ shutdown_sig' = shutdown_sig + 1
    /\ sd_sends' = sd_sends + 1
    /\ sd_pc' = [sd_pc EXCEPT ![k] = "idle"]
    /\ sd_lock' = 0
    /\ sd_done' = sd_done + 1
    /\ UNCHANGED <<sd_n, server_task, shutdown_tx, restQ>>
    /\ UNCHANGED otherS

NextS ==
    \/ \E k \in Stoppers : SdCall(k)
    \/ \E k \in Stoppers : SdLock(k)
    \/ \E k \in Stoppers : SdTake(k)
    \/ \E k \in Stoppers : SdSend(k)
    \/ ServerTaskStop
    \/ ServerTaskFail
    \/ \E c \in Conns : Accept(c)

(***************************************************************************)
(* SpecX: one request, body and response together.                         *)
(***************************************************************************)
\* what the consumer of SpecX sends
MsgsX == {Status(404), Finish}

SendX == \E m \in MsgsX : Len(trace) < MaxSendsX /\ Send(m)

\* The connection is closed (peer reset, or serve_connection failed) while
\* handle_request awaits the response: the handle_request future is dropped
\* with the response receiver, and the Incoming body that the pump task owns
\* is cut off if the pump has not seen its end yet.
ConnCloseX ==
    /\ resp_state = "building"
    /\ resp_state' = "aborted"
    /\ resp_rx' = "dropped"
    /\ resp_ch' = <<>>
    /\ wire_cut' = (wire_cut \/ pump_pc \in {"frame", "send"})
    /\ UNCHANGED <<wire_headers, req_headers, response_tx, builder, response,
                   trace, upVars>>
    /\ UNCHANGED <<wire_all, wire_end, wire_pos, pump_pc, pump_item, pump_saw,
                   body_ch, body_rx, rd_pc, read_log>>
    /\ UNCHANGED <<varsQ, varsW, varsS>>

\* body.frame() on a connection that was closed: it resolves, with what was
\* left to read or with an error
PumpFrameCut == wire_cut /\ PumpFrame

NextX ==
    \/ PumpFrame
    \/ PumpSend
    \/ ReadCall
    \/ ReadRecv
    \/ SendX
    \/ BuilderRecv
    \/ ConnCloseX

(***************************************************************************)
(* The specifications.                                                     *)
(***************************************************************************)
InitSpecQ == InitQ /\ IdleB /\ IdleR /\ IdleW /\ IdleS

SpecQ == InitSpecQ /\ [][NextQ]_vars

\* The consumer keeps calling receive_request, the request_queue mutex is
\* handed on in turn, and a recv that can return does.
FairSpecQ ==
    /\ SpecQ
    /\ \A k \in Callers : WF_vars(RRCall(k))
    /\ \A k \in Callers : WF_vars(RRLock(k))
    /\ \A k \in Callers : WF_vars(RRRecv(k))

InitSpecB == InitB /\ InitQ /\ IdleR /\ IdleW /\ IdleS

SpecB == InitSpecB /\ [][NextB]_vars

InitSpecBAny == InitBAny /\ InitQ /\ IdleR /\ IdleW /\ IdleS

\* the body pump and its reader on a body of any frames
SpecBAny == InitSpecBAny /\ [][NextB]_vars

InitSpecR == InitR /\ InitQ /\ IdleB /\ IdleW /\ IdleS

SpecR == InitSpecR /\ [][NextR]_vars

InitSpecU == InitU /\ InitQ /\ IdleB /\ IdleW /\ IdleS

SpecU == InitSpecU /\ [][NextU]_vars

InitSpecW == InitW /\ InitQ /\ IdleB /\ IdleR /\ IdleS

SpecW == InitSpecW /\ [][NextW]_vars

InitSpecS == InitS /\ InitQ /\ IdleB /\ IdleR /\ IdleW

SpecS == InitSpecS /\ [][NextS]_vars

InitSpecX == InitB /\ InitR /\ InitQ /\ IdleW /\ IdleS

SpecX == InitSpecX /\ [][NextX]_vars

\* The runtime schedules the pump task and the consumer's calls in progress.
\* While the connection is open the peer may stall, so the body yields its
\* next frame for sure only once the connection is closed.
FairSpecX ==
    /\ SpecX
    /\ WF_vars(PumpFrameCut)
    /\ WF_vars(PumpSend)
    /\ WF_vars(ReadRecv)

\* The runtime schedules the pump task and the wire delivers the body; the
\* consumer keeps calling read_body_chunk.
FairSpecB ==
    /\ SpecB
    /\ WF_vars(PumpFrame)
    /\ WF_vars(PumpSend)
    /\ WF_vars(ReadCall)
    /\ WF_vars(ReadRecv)

(***************************************************************************)
(* Claims about the request body (checked under SpecB and FairSpecB).      *)
(***************************************************************************)
IsData(f) == f.kind = "data"

\* the data chunks of a wire body, in wire order
DataOf(w) == LET d == SelectSeq(w, IsData) IN [i \in 1..Len(d) |-> d[i].bytes]

\* the pump has seen the wire deliver the whole body
WireDelivered == pump_saw = "end"

EosSeen == \E i \in 1..Len(read_log) : read_log[i].res = "eos"

\* C5: a consumer that keeps calling read_body_chunk gets every body chunk in
\* wire order and then end-of-stream: an end-of-stream that follows chunks
\* only follows exactly the data chunks of the wire body, and once the wire
\* has delivered the whole body (a zero-length one too) a read returns
\* end-of-stream unless the consumer let go of the request.
C5_BodyReadTerminates ==
    /\ [](\A i \in 1..Len(read_log) :
            (read_log[i].res = "eos" /\ \A j \in 1..(i - 1) : read_log[j].res = "chunk")
               => [j \in 1..(i - 1) |-> read_log[j].bytes] = DataOf(wire_all))
    /\ (WireDelivered ~> (EosSeen \/ body_rx = "Dropped"))

\* A body of two data chunks was read to its end: chunk, chunk, end-of-stream,
\* with the pump having met a full channel on the way.
C5_Witness ==
    /\ Len(DataOf(wire_all)) = 2
    /\ Len(read_log) = 3
    /\ read_log[1].res = "chunk" /\ read_log[2].res = "chunk"
    /\ read_log[3].res = "eos"

\* C6: once read_body_chunk has returned end-of-stream, every further
\* read_body_chunk on the request fails with "already consumed".
C6_SecondConsumptionFails ==
    \A i, j \in 1..Len(read_log) :
        (i < j /\ read_log[i].res = "eos") => read_log[j].res = "consumed"

(***************************************************************************)
(* Claims about the Request Queue (checked under SpecQ).                   *)
(***************************************************************************)
\* the place of request r in sequence s (0 when absent)
IndexOf(s, r) == IF r \in Range(s) THEN CHOOSE i \in 1..Len(s) : s[i] = r ELSE 0

\* C2: every request a connection handler enqueued is returned by
\* receive_request exactly once: no request is returned twice, only enqueued
\* requests are returned, as long as the ServerHandle lives every enqueued
\* request is either already returned or still in the queue, and two requests
\* of one connection are returned in the order that connection enqueued them.
C2_ExactlyOnceInOrder ==
    /\ NoDup(delivered)
    /\ Range(delivered) \subseteq Range(enqueued)
    /\ server_handle =>
         /\ NoDup(queue)
         /\ Range(delivered) \cap Range(queue) = {}
         /\ Range(delivered) \cup Range(queue) = Range(enqueued)
    /\ \A i, j \in 1..Len(delivered) :
         (i < j /\ delivered[i][1] = delivered[j][1])
            => IndexOf(enqueued, delivered[i]) < IndexOf(enqueued, delivered[j])

\* Both requests of one connection and a request of the other one have been
\* returned, and two receive_request calls are in progress at once.
C2_Witness ==
    /\ \E c \in Conns : {<<c, 1>>, <<c, 2>>} \subseteq Range(delivered)
    /\ Len(delivered) >= 3
    /\ \E k1, k2 \in Callers : rr_pc[k1] = "recv" /\ rr_pc[k2] = "lock"

\* shutdown() has run and the server task has ended
ShutdownDone == shutdown_tx = "None" /\ server_task = "stopped"

\* C3: after shutdown(), every receive_request call that returns returns
\* "no more requests", never a request.
C3_AfterShutdownOnlyEos ==
    [][(ShutdownDone /\ \E k \in Callers : rr_pc[k] = "recv" /\ rr_pc'[k] = "idle")
          => rr_last' = "eos"]_vars

\* C4: after shutdown(), no enqueue step of any connection handler succeeds.
C4_NoEnqueueAfterShutdown ==
    [][ShutdownDone => enqueued' = enqueued]_vars

(***************************************************************************)
(* Claims about the response (checked under SpecR).                        *)
(***************************************************************************)
\* the place of the first Finish among the consumer's calls (0: none)
FirstFinish ==
    LET S == {i \in 1..Len(trace) : trace[i].msg.t = "Finish"}
    IN IF S = {} THEN 0 ELSE CHOOSE i \in S : \A j \in S : i <= j

\* the consumer's calls up to and with its first Finish
SentToFinish == SubSeq(MsgsOf(trace), 1, FirstFinish)

IsHeaderMsg(m) == m.t = "Header"
IsChunkMsg(m) == m.t = "BodyChunk"

SentHeaders ==
    LET hs == SelectSeq(SentToFinish, IsHeaderMsg)
    IN [i \in 1..Len(hs) |-> <<hs[i].name, hs[i].value>>]

SentChunks ==
    LET cs == SelectSeq(SentToFinish, IsChunkMsg)
    IN [i \in 1..Len(cs) |-> cs[i].bytes]

SentStatus == SentToFinish[1].code

\* The consumer sent Status(s), then Headers, then BodyChunks, then Finish,
\* every call returned Ok, and the handler has written the response.
SentInOrderAndWritten ==
    /\ resp_state = "written"
    /\ FirstFinish > 1
    /\ \A i \in 1..FirstFinish : trace[i].ok
    /\ InOrder(SentToFinish)

\* the values of header name n in hs, in order
ValuesOf(hs, n) ==
    LET Named(h) == h[1] = n
        sel == SelectSeq(hs, Named)
    IN [i \in 1..Len(sel) |-> sel[i][2]]

\* the place where name n first appears in hs
FirstPlace(hs, n) == CHOOSE i \in 1..Len(hs) : hs[i][1] = n /\ \A j \in 1..(i - 1) : hs[j][1] # n

\* rs holds exactly the pairs of hs: every name with its values in the order
\* of hs, the names in the order in which they first appear in hs
SameHeaders(rs, hs) ==
    /\ Len(rs) = Len(hs)
    /\ \A i \in 1..Len(hs) : ValuesOf(rs, hs[i][1]) = ValuesOf(hs, hs[i][1])
    /\ \A i, j \in 1..Len(rs) :
         (i < j /\ rs[i][1] # rs[j][1])
            => FirstPlace(hs, rs[i][1]) < FirstPlace(hs, rs[j][1])

\* C1 as stated: for every status s, header sequence and chunk sequence sent
\* as Status(s), Headers, BodyChunks, Finish, the written response has status
\* s, exactly those headers in the order sent, and the chunks' concatenation
\* as its body.
C1_ResponseIsWhatWasSent ==
    SentInOrderAndWritten =>
        response = [status |-> SentStatus,
                    headers |-> SentHeaders,
                    body |-> Concat(SentChunks)]

\* C1 amended: for a valid status code s (100..999) and valid header names
\* and values,
\* the written response has status s, the chunks' concatenation as its body,
\* and exactly the headers sent with their names in lower case: every name
\* with its values in the order sent (duplicates kept, not merged), the names
\* in the order of their first appearance.
C1_ResponseOfValidParts ==
    (/\ SentInOrderAndWritten
     /\ SentStatus >= 100 /\ SentStatus <= 999
     /\ \A i \in 1..Len(SentHeaders) :
           ValidHeaderName(SentHeaders[i][1]) /\ ValidHeaderValue(SentHeaders[i][2]))
    => /\ response.status = SentStatus
       /\ response.body = Concat(SentChunks)
       /\ SameHeaders(response.headers, LowerNames(SentHeaders))

\* Status(404), two headers of one name around a header of another name, two
\* chunks and Finish were sent and the response is written: the two values of
\* the one name stand together in it.
C1_Witness ==
    /\ SentInOrderAndWritten
    /\ SentStatus = 404
    /\ SentHeaders = << <<"x-a", "1">>, <<"x-b", "1">>, <<"X-A", "2">> >>
    /\ SentChunks = << <<1>>, <<2>> >>
    /\ response.headers = << <<"x-a", "1">>, <<"x-a", "2">>, <<"x-b", "1">> >>
    /\ response.body = <<1, 2>>

\* C10: once a finish() has returned Ok, every later send_status,
\* send_header, write_chunk or finish on the request returns an error.
C10_NoSendAcceptedAfterFinish ==
    \A i, j \in 1..Len(trace) :
        (i < j /\ trace[i].msg.t = "Finish" /\ trace[i].ok) => ~trace[j].ok

CarriesKey ==
    \E i \in 1..Len(wire_headers) :
        EqIgnoreAsciiCase(wire_headers[i][1], "Sec-WebSocket-Key")

C11_ClosedIsTerminal ==
    /\ [][ws_stream = "None" => ws_stream' = "None"]_vars
    /\ [](\A i \in 1..Len(ws_log) : ws_log[i].at.closed => ws_log[i].res = "closed")
    /\ []((ws_stream = "None" /\ ws_pc["r"] = "io") => ENABLED WsRecvIo)
    /\ []((ws_stream = "None" /\ ws_pc["s"] = "io") => ENABLED WsSendIo)

\* A receive saw the stream fail and closed the handle; a send and a receive
\* called after that have returned.
C11_Witness ==
    /\ "recv_error" \in ws_trig
    /\ \E i, j \in 1..Len(ws_log) :
         /\ ws_log[i].at.closed /\ ws_log[i].op = "text"
         /\ ws_log[j].at.closed /\ ws_log[j].op = "recv"

\* what puts a WebSocketHandle into the Closed state according to C12
ClosingTriggers == {"close_frame", "send_error", "recv_error", "local_close"}

\* C12: after a received Close frame, a stream error on send or on receive,
\* or a local close(), the handle is Closed: a send called after it fails and
\* a receive called after it returns "closed", without blocking.
C12_ClosedOnEveryTrigger ==
    /\ (ws_trig \cap ClosingTriggers # {}) => ws_stream = "None"
    /\ \A i \in 1..Len(ws_log) :
         (ws_log[i].at.trig \cap ClosingTriggers # {})
            => ws_log[i].res \in (IF ws_log[i].op = "recv" THEN {"closed"}
                                                           ELSE {"closed", "failed"})
    /\ (ws_pc["r"] = "io" /\ ws_at["r"].trig \cap ClosingTriggers # {})
          => ENABLED WsRecvIo

\* C13: a send on an open handle does not have to wait for a receive that is
\* suspended waiting for the peer's next frame.
C13_SendNotBlockedByRecv ==
    ~(/\ ws_stream = "Some"
      /\ ws_pc["s"] = "lock"
      /\ ws_lock = "r"
      /\ ~ENABLED WsRecvIo)

(***************************************************************************)
(* Claims about shutdown() (checked under SpecS).                          *)
(***************************************************************************)
\* C14: shutdown() is idempotent: over all calls, sequential or concurrent,
\* tx.send is executed at most once, and exactly once as soon as one call has
\* returned; a call that finds the sender taken changes nothing of the
\* server; and no call suspends forever: a call that holds the mutex can
\* always take its next step, so the mutex is always released.
C14_ShutdownIdempotent ==
    /\ [](sd_sends <= 1 /\ shutdown_sig <= 1)
    /\ [](sd_done >= 1 => (sd_sends = 1 /\ shutdown_tx = "None"))
    /\ [][sd_sends >= 1 => UNCHANGED <<shutdown_tx, sd_sends>>]_vars
    /\ [][(sd_sends >= 1 /\ sd_done' > sd_done)
            => UNCHANGED <<server_task, shutdown_tx, shutdown_sig, restQ>>]_vars
    /\ [](\A k \in Stoppers :
            /\ sd_pc[k] = "take" => ENABLED SdTake(k)
            /\ sd_pc[k] = "send" => ENABLED SdSend(k)
            /\ (sd_pc[k] = "lock" /\ sd_lock = 0) => ENABLED SdLock(k))

\* Both callers have called shutdown() twice, the first two calls at the same
\* time, all four calls have returned, and the server task has stopped on the
\* one signal.
C14_Witness ==
    /\ \A k \in Stoppers : sd_n[k] = MaxShutdowns /\ sd_pc[k] = "idle"
    /\ sd_done = 2 * MaxShutdowns
    /\ sd_sends = 1
    /\ server_task = "stopped"

(***************************************************************************)
(* Claims about the connection handlers and the queue (checked under       *)
(* SpecQ).                                                                 *)
(***************************************************************************)
\* C15: a handler that finds the Request Queue closed answers its request
\* with the synthesized 500 response, at once; the request is never enqueued
\* nor returned by receive_request; and the step that answers 500 ends
\* neither the server task nor any connection, and disturbs no other
\* connection's handler.
C15_ClosedQueueIs500 ==
    /\ [](\A r \in Reqs : answered[r] = "e500" =>
            /\ r \notin Range(enqueued)
            /\ r \notin Range(delivered)
            /\ EnqueueFailResponse.status = 500
            /\ EnqueueFailResponse.body = ServerError)
    /\ [](\A c \in Conns :
            (conn[c] = "open" /\ h_pc[c] = "enqueue" /\ ~ReceiverAlive)
               => ENABLED Enqueue(c))
    /\ [][\A r \in Reqs :
            (answered[r] # "e500" /\ answered'[r] = "e500") =>
               /\ UNCHANGED <<server_task, conn>>
               /\ \A c \in Conns \ {r[1]} : h_pc'[c] = h_pc[c]]_vars

\* With the ServerHandle gone and the server task still running, one
\* connection has had both its requests answered 500 and is still open, and
\* so is the other connection, whose handler then got its 500 as well.
C15_Witness ==
    /\ server_task = "running"
    /\ \E c1, c2 \in Conns :
         /\ c1 # c2
         /\ answered[<<c1, 1>>] = "e500" /\ answered[<<c1, 2>>] = "e500"
         /\ conn[c1] = "open" /\ conn[c2] = "open"
         /\ answered[<<c2, 1>>] = "e500"

\* the requests of connection c that sit in the queue
QueuedOf(c) == {i \in 1..Len(queue) : queue[i][1] = c}

\* C19: within one connection requests are served one after another in
\* arrival order: when the handler of request N+1 runs, every earlier request
\* of the connection has been answered; a connection has at most one request
\* in the queue; and its requests were enqueued in arrival order.
C19_OneRequestPerConnection ==
    /\ \A c \in Conns : \A n \in 1..(h_req[c] - 1) : answered[<<c, n>>] # "none"
    /\ \A c \in Conns : Cardinality(QueuedOf(c)) <= 1
    /\ \A i, j \in 1..Len(enqueued) :
         (i < j /\ enqueued[i][1] = enqueued[j][1]) => enqueued[i][2] < enqueued[j][2]

\* A connection whose first request was built and answered has its second
\* request in the queue, next to a request of the other connection being
\* answered.
C19_Witness ==
    \E c1, c2 \in Conns :
        /\ c1 # c2
        /\ answered[<<c1, 1>>] = "built"
        /\ <<c1, 2>> \in Range(queue)
        /\ h_pc[c2] = "build"

\* C20: the Request Queue never holds more requests than its capacity; a
\* handler at the enqueue step of a live queue can enqueue exactly when the
\* queue has room, and stays at the enqueue step while it is full; no request
\* is answered with an error while the queue lives; and every request
\* enqueued is in the queue or was returned by receive_request.
C20_BoundedBackpressure ==
    /\ [](Len(queue) <= QueueCap)
    /\ [](\A c \in Conns :
            (conn[c] = "open" /\ h_pc[c] = "enqueue" /\ ReceiverAlive)
               => (ENABLED Enqueue(c) <=> Len(queue) < QueueCap))
    /\ [](\A r \in Reqs : answered[r] = "e500" => ~server_handle)
    /\ [](server_handle => Range(enqueued) = Range(delivered) \cup Range(queue))
    /\ [][\A c \in Conns :
            (h_pc[c] = "enqueue" /\ Len(queue) = QueueCap /\ conn'[c] = "open"
                /\ server_handle')
               => (h_pc'[c] = "enqueue" /\ h_req'[c] = h_req[c])]_vars

\* The queue is full, a handler is suspended at the enqueue step, and the
\* consumer has pulled before: a handler that had waited got its request in.
C20_Witness ==
    /\ server_handle
    /\ Len(queue) = QueueCap
    /\ Len(delivered) >= 2
    /\ \E c \in Conns : conn[c] = "open" /\ h_pc[c] = "enqueue"

(***************************************************************************)
(* Claims about a consumer that goes away (checked under SpecR).           *)
(***************************************************************************)
\* C16: once the consumer has dropped the request without sending Finish, the
\* response build can complete: the handler is not left waiting on the
\* response-part channel.
C16_ConsumerGoneBuildCompletes ==
    (response_tx = "Dropped" /\ resp_state = "building") => ENABLED BuilderRecv

(***************************************************************************)
(* Claims about a connection that closes (checked under FairSpecX).        *)
(***************************************************************************)
\* the connection was closed while the request was outstanding
ConnClosed == resp_state = "aborted"

\* C17: when the connection is closed while a request is outstanding, a
\* read_body_chunk that is pending, then or later, returns (a buffered chunk,
\* end-of-stream or an error) instead of hanging, enough reads end in
\* end-of-stream or an error, and every send on the response sink that
\* returns after the close returns an error.
C17_ConnCloseEndsBothChannels ==
    /\ (ConnClosed /\ rd_pc = "recv") ~> (rd_pc = "idle")
    /\ [][(ConnClosed /\ rd_pc = "recv" /\ rd_pc' = "idle")
            => read_log'[Len(read_log')].res \in {"chunk", "eos", "err"}]_vars
    /\ []((ConnClosed /\ Len(read_log) = MaxReads)
            => \E i \in 1..Len(read_log) : read_log[i].res \in {"eos", "err"})
    /\ [][(ConnClosed /\ Len(trace') > Len(trace)) => ~trace'[Len(trace')].ok]_vars
    /\ []((ConnClosed /\ response_tx = "Some" /\ Len(trace) < MaxSendsX)
            => ENABLED SendX)

\* The connection was closed under a body of two frames with a read pending
\* and the pump waiting for the wire; that read returned an error, and a send
\* made after the close returned an error.
C17_Witness ==
    /\ ConnClosed
    /\ wire_cut
    /\ Len(wire_all) = 2 /\ wire_pos < 2
    /\ read_log # <<>> /\ read_log[Len(read_log)].res = "err"
    /\ trace # <<>> /\ ~trace[Len(trace)].ok

(***************************************************************************)
(* Claims about the upgrade handshake (checked under SpecU).               *)
(***************************************************************************)
\* the value of the request's first Sec-WebSocket-Key header on the wire
WireKey ==
    LET S == {i \in 1..Len(wire_headers) :
                 EqIgnoreAsciiCase(wire_headers[i][1], "sec-websocket-key")}
    IN wire_headers[CHOOSE i \in S : \A j \in S : i <= j][2]

\* the handshake response for an accept value
HandshakeOf(accept) ==
    << Status(101), Header("Upgrade", "websocket"), Header("Connection", "Upgrade"),
       Header("Sec-WebSocket-Accept", accept), Finish >>

\* C18: an upgrade() that succeeded has put on the response-part channel
\* exactly Status(101), Header(Upgrade, websocket), Header(Connection,
\* Upgrade), Header(Sec-WebSocket-Accept, accept) and Finish, in this order,
\* where accept is base64(SHA-1(key ++ GUID)) of the request's
\* Sec-WebSocket-Key (for the key of RFC 6455's example the value of that
\* example); a WebSocketHandle is created only by a call that has sent the
\* whole sequence, and a call sends nothing once it awaits the upgrade.
C18_HandshakeSequence ==
    /\ [](\A u \in Upgraders :
            up_res[u] = "ok" =>
               /\ up_sent[u] = HandshakeOf(WsAccept(WireKey))
               /\ WireKey = SampleKey =>
                    up_sent[u][4].value = "s3pPLMBiTxaQ9kYGzzhZRbK+xOo=")
    /\ [][ws_handles' # ws_handles =>
            \E u \in Upgraders :
               /\ up_pc[u] = "await"
               /\ up_res'[u] = "ok"
               /\ up_sent[u] = HandshakeOf(WsAccept(WireKey))
               /\ ws_handles' = ws_handles + 1]_vars
    /\ [][\A u \in Upgraders :
            up_sent'[u] # up_sent[u] =>
               /\ up_pc[u] = "send"
               /\ Len(up_sent[u]) < 5
               /\ up_sent'[u] = SubSeq(HandshakeOf(WsAccept(WireKey)), 1,
                                       Len(up_sent[u]) + 1)]_vars

\* An upgrade() succeeded on a request whose first Sec-WebSocket-Key is not
\* the only one, and the response written carries the accept value of that
\* first key.
C18_Witness ==
    /\ ws_handles = 1
    /\ WireKey = OtherKey
    /\ \E i \in 1..Len(wire_headers) : wire_headers[i][2] = SampleKey
    /\ \E u \in Upgraders :
          /\ up_res[u] = "ok"
          /\ up_sent[u][4].value = "ICX+Yqv66kxgM0FcWaLWlFLwTAI="
    /\ \E i \in 1..Len(response.headers) :
          response.headers[i] = <<"sec-websocket-accept",
                                  "ICX+Yqv66kxgM0FcWaLWlFLwTAI=">>

(***************************************************************************)
(* Claims about the response body (checked under SpecR).                   *)
(***************************************************************************)
\* the body chunks of the request's response that are held in memory and not
\* yet handed to the wire: nothing is handed to hyper before build returns
UnwrittenChunks ==
    IF resp_state = "building"
      THEN Len(builder.body_chunks) + CountKind(resp_ch, "BodyChunk")
      ELSE 0

\* C21: the response body is streamed with bounded buffering: the number of
\* response chunks held in memory and not yet handed to the wire never
\* exceeds the capacity of the response-part channel.
C21_BoundedResponseBuffer == UnwrittenChunks <= RespCap

(***************************************************************************)
(* Claims about the body pump (checked under SpecBAny and FairSpecB).      *)
(***************************************************************************)
\* the zero-length chunk
EofSentinel == OkItem(<<>>)

\* the pump has put item x on the body channel in this step
Forwarded(x) == body_ch' = Append(body_ch, x)

\* the data chunks the pump has read from the wire so far
DataRead == DataOf(SubSeq(wire_all, 1, wire_pos))

\* the chunks read_body_chunk returned before its i-th call
ChunksBefore(i) ==
    LET c == SelectSeq(SubSeq(read_log, 1, i - 1), LAMBDA r : r.res = "chunk")
    IN [j \in 1..Len(c) |-> c[j].bytes]

C22_Witness ==
    /\ wire_all = <<DataFrame(<<1>>), TrailersFrame>>
    /\ pump_saw = "end"
    /\ pump_pc = "done"
    /\ read_log = <<ChunkRes(<<1>>), EosRes>>

\* read_body_chunk has returned an error
ErrSeen == \E i \in 1..Len(read_log) : read_log[i].res = "err"

\* C23: on a body read error the pump forwards one error marker, after the
\* chunks it had read, and stops without an EOF sentinel; the consumer gets
\* those chunks in order and then, if it keeps reading, exactly one
\* read_body_chunk returns an error (never end-of-stream in its place); the
\* steps of the error touch nothing outside this request's body.
C23_ReadErrorIsOneErrorMarker ==
    /\ [](pump_saw = "err" =>
            /\ pump_item # EofSentinel
            /\ \A i \in 1..Len(body_ch) : body_ch[i] # EofSentinel
            /\ Cardinality({i \in 1..Len(body_ch) : body_ch[i] = ErrItem}) <= 1
            /\ \A i \in 1..Len(body_ch) : body_ch[i] = ErrItem => i = Len(body_ch))
    /\ [][(pump_saw = "err" /\ Len(body_ch') > Len(body_ch)) =>
            /\ Forwarded(ErrItem)
            /\ ~ErrSeen
            /\ \A i \in 1..Len(body_ch) : body_ch[i] # ErrItem
            /\ pump_pc' = "done"]_vars
    /\ [](\A i \in 1..Len(read_log) :
            read_log[i].res = "err" =>
               /\ pump_saw = "err"
               /\ \A j \in 1..(i - 1) : read_log[j].res = "chunk"
               /\ ChunksBefore(i) = DataRead
               /\ \A j \in 1..Len(read_log) : read_log[j].res = "err" => j = i)
    /\ [][(rd_pc = "recv" /\ body_ch # <<>> /\ Head(body_ch) = ErrItem
             /\ read_log' # read_log)
            => read_log' = Append(read_log, ErrRes)]_vars
    /\ [][(pump_saw' = "err" \/ ErrSeen') => UNCHANGED otherB]_vars
    /\ (pump_saw = "err" ~> (ErrSeen \/ body_rx = "Dropped"))

\* The body failed after two data chunks: the consumer read both chunks in
\* wire order, then one error, and the read after that found the channel
\* closed.
C23_Witness ==
    /\ wire_end = "err"
    /\ wire_all = <<DataFrame(<<1>>), DataFrame(<<2>>)>>
    /\ read_log = <<ChunkRes(<<1>>), ChunkRes(<<2>>), ErrRes, EosRes>>

OkSent ==
    LET t == SelectSeq(trace, LAMBDA e : e.ok)
    IN [i \in 1..Len(t) |-> t[i].msg]

\* the place of the first Finish in ms, or Len(ms) + 1
FinishPlace(ms) ==
    LET S == {i \in 1..Len(ms) : ms[i].t = "Finish"} \cup {Len(ms) + 1}
    IN CHOOSE i \in S : \A j \in S : i <= j

\* the messages the builder has received: all but those still on the
\* channel, and none from the first Finish on
Received ==
    LET got == SubSeq(OkSent, 1, Len(OkSent) - Len(resp_ch))
    IN SubSeq(got, 1, FinishPlace(got) - 1)

\* the status that a sequence of messages asks for: the code of its last
\* Status, 500 for a code that is no status code, none (0) without a Status
AskedStatus(ms) ==
    LET S == {i \in 1..Len(ms) : ms[i].t = "Status"}
        last == CHOOSE i \in S : \A j \in S : j <= i
    IN IF S = {} THEN 0
       ELSE IF ms[last].code >= 100 /\ ms[last].code <= 999 THEN ms[last].code
       ELSE 500

\* C25: the response's status is that of the last Status message received
\* before Finish, wherever it stands among the Header and BodyChunk messages:
\* its code, 500 for a code that is no valid status code, 200 when there was
\* no Status message (a response that cannot be built for a bad header is the
\* handler's 500); a Status message leaves the accumulated headers and body
\* chunks as they are.
C25_LastStatusWins ==
    /\ [](resp_state = "building" => builder.status = AskedStatus(Received))
    /\ [](resp_state = "written" =>
            response.status =
               IF \E i \in 1..Len(builder.headers) :
                     \/ ~ValidHeaderName(builder.headers[i][1])
                     \/ ~ValidHeaderValue(builder.headers[i][2])
                 THEN 500
               ELSE IF AskedStatus(Received) = 0 THEN 200
               ELSE AskedStatus(Received))
    /\ [][(resp_state = "building" /\ resp_ch # <<>> /\ Head(resp_ch).t = "Status"
             /\ resp_ch' = Tail(resp_ch))
            => /\ builder'.headers = builder.headers
               /\ builder'.body_chunks = builder.body_chunks]_vars

\* The builder has received Status(404), a body chunk and Status(201): its
\* status is 201 and the chunk is still there.
C25_Witness ==
    /\ resp_state = "building"
    /\ resp_ch = <<>>
    /\ OkSent = <<Status(404), BodyChunk(<<1>>), Status(201)>>
    /\ builder = [status |-> 201, headers |-> <<>>, body_chunks |-> << <<1>> >>]

(***************************************************************************)
(* Claims about the queue across shutdown (checked under FairSpecQ).       *)
(***************************************************************************)
\* C26: shutdown() discards nothing of the Request Queue: the step of
\* shutdown() and the stop of the server task leave the queue as it is; as
\* long as the ServerHandle lives a request leaves the queue only as the
\* oldest one, returned by receive_request, and a queue that holds requests
\* is emptied by later receive_request calls; receive_request returns "no
\* more requests" only when the queue is empty, the acceptor has stopped
\* and no connection is open.
C26_ShutdownKeepsQueuedWork ==
    /\ [][((shutdown_tx = "Some" /\ shutdown_tx' = "None") \/ server_task' # server_task)
            => UNCHANGED <<queue, enqueued, delivered>>]_vars
    /\ [][\A k \in Callers :
            (rr_pc[k] = "recv" /\ rr_pc'[k] = "idle" /\ rr_last' = "eos")
               => /\ queue = <<>>
                  /\ server_task # "running"
                  /\ \A c \in Conns : conn[c] # "open"
                  /\ delivered' = delivered]_vars
    /\ [][(server_handle' /\ queue' # queue) =>
            \/ \E r \in Reqs : queue' = Append(queue, r)
            \/ /\ queue # <<>>
               /\ queue' = Tail(queue)
               /\ delivered' = Append(delivered, Head(queue))
               /\ rr_last' = "req"]_vars
    /\ (queue # <<>>) ~> (queue = <<>> \/ ~server_handle)

\* After shutdown() was acted on, the queue is full of work, a handler of a
\* connection that is still open waits to enqueue its request, and a
\* receive_request is about to take the oldest one.
C26_Witness ==
    /\ ShutdownDone
    /\ Len(queue) = QueueCap
    /\ \E c \in Conns : conn[c] = "open" /\ h_pc[c] = "enqueue"
    /\ \E k \in Callers : rr_pc[k] = "recv"
    /\ delivered # <<>>

====
